---- MODULE Spec2Model ----
(***************************************************************************)
(* The MIR inlining pass of librustc_mir/transform/inline.rs.              *)
(*                                                                         *)
(* A body (Mir) is a record of index vectors.  Index vectors are modelled  *)
(* as sequences; the element with MIR index i is the (i+1)-th element.     *)
(* Option<T> is a sequence of length at most one.                          *)
(***************************************************************************)
EXTENDS Integers, Sequences, FiniteSets

VARIABLES
    tcx,          \* the compiler context the pass queries (attributes, bodies)
    source,       \* MirSource of the body under optimization
    caller_mir,   \* the body under optimization, mutated in place
    callsites,    \* the VecDeque of CallSite
    local_change, \* run_pass: local_change
    changed,      \* run_pass: changed
    pc,           \* position in run_pass
    attempt,      \* the candidate popped last and what became of it
    integrator,   \* the Integrator built by the last inline_call
    simplify_runs \* how often the CFG simplifier was invoked

vars == <<tcx, source, caller_mir, callsites, local_change, changed, pc,
          attempt, integrator, simplify_runs>>

-----------------------------------------------------------------------------
(* Program constants *)

DEFAULT_THRESHOLD == 50
HINT_THRESHOLD == 100
INSTR_COST == 5
CALL_PENALTY == 25
UNKNOWN_SIZE_COST == 10

START_BLOCK == 0
RETURN_PLACE == 0

\* tcx.data_layout.pointer_size.bytes() of the modelled target
ptr_size == 8

-----------------------------------------------------------------------------
(* Option and index vectors *)

None == <<>>
Some(x) == <<x>>
IsSome(o) == Len(o) = 1
Unwrap(o) == o[1]

At(vec, i) == vec[i + 1]
Indices(vec) == 0 .. (Len(vec) - 1)

RECURSIVE SeqSum(_)
SeqSum(s) == IF s = <<>> THEN 0 ELSE Head(s) + SeqSum(Tail(s))

RECURSIVE Concat(_)
Concat(ss) == IF ss = <<>> THEN <<>> ELSE Head(ss) \o Concat(Tail(ss))

SeqMap(Op(_), s) == [k \in 1 .. Len(s) |-> Op(s[k])]

-----------------------------------------------------------------------------
(* MIR constructors *)

Local(l) == [kind |-> "Local", local |-> l]
Static(s) == [kind |-> "Static", def_id |-> s]
Projection(base, elem) == [kind |-> "Projection", base |-> base, elem |-> elem]
Deref == [kind |-> "Deref"]
Field(f) == [kind |-> "Field", field |-> f]
Index(l) == [kind |-> "Index", local |-> l]

PlaceDeref(place) == Projection(place, Deref)
PlaceField(place, f) == Projection(place, Field(f))

Value(v) == [kind |-> "Value", value |-> v]
Promoted(p) == [kind |-> "Promoted", index |-> p]
FnDef(d, n) == [kind |-> "FnDef", def_id |-> d, substs |-> n]

Copy(place) == [kind |-> "Copy", place |-> place]
Move(place) == [kind |-> "Move", place |-> place]
Constant(lit) == [kind |-> "Constant", literal |-> lit]

Use(op) == [kind |-> "Use", operand |-> op]
Ref(place) == [kind |-> "Ref", place |-> place]
BinaryOp(l, r) == [kind |-> "BinaryOp", lhs |-> l, rhs |-> r]
Cast(op) == [kind |-> "Cast", operand |-> op]
Aggregate(ops) == [kind |-> "Aggregate", operands |-> ops]

SourceInfo(span, scope) == [span |-> span, scope |-> scope]

Assign(place, rv) == [kind |-> "Assign", place |-> place, rvalue |-> rv]
StorageLive(l) == [kind |-> "StorageLive", local |-> l]
StorageDead(l) == [kind |-> "StorageDead", local |-> l]
Nop == [kind |-> "Nop"]
Statement(si, kind) == [source_info |-> si, kind |-> kind]

Goto(t) == [kind |-> "Goto", target |-> t]
SwitchInt(d, ts) == [kind |-> "SwitchInt", discr |-> d, targets |-> ts]
Call(f, args, dest, cleanup) ==
    [kind |-> "Call", func |-> f, args |-> args, destination |-> dest,
     cleanup |-> cleanup]
Drop(loc, t, u) == [kind |-> "Drop", location |-> loc, target |-> t, unwind |-> u]
DropAndReplace(loc, v, t, u) ==
    [kind |-> "DropAndReplace", location |-> loc, value |-> v, target |-> t,
     unwind |-> u]
AssertTerm(c, t, u) == [kind |-> "Assert", cond |-> c, target |-> t, cleanup |-> u]
Return == [kind |-> "Return"]
Resume == [kind |-> "Resume"]
Abort == [kind |-> "Abort"]
Unreachable == [kind |-> "Unreachable"]
FalseEdges(r, im) ==
    [kind |-> "FalseEdges", real_target |-> r, imaginary_targets |-> im]
Yield(v, r, d) == [kind |-> "Yield", value |-> v, resume |-> r, drop |-> d]
GeneratorDrop == [kind |-> "GeneratorDrop"]
Terminator(si, kind) == [source_info |-> si, kind |-> kind]

BasicBlockData(stmts, term, cleanup) ==
    [statements |-> stmts, terminator |-> term, is_cleanup |-> cleanup]

\* size: Option of the byte size the layout query reports for the type
LocalDecl(user, size, drop, fields, si) ==
    [is_user_variable |-> user, size |-> size, needs_drop |-> drop,
     tuple_fields |-> fields, source_info |-> si]

VisibilityScopeData(span, parent) == [span |-> span, parent_scope |-> parent]

Mir(blocks, scopes, promoted, locals, argc, upvars, yield, span) ==
    [basic_blocks |-> blocks, visibility_scopes |-> scopes,
     promoted |-> promoted, local_decls |-> locals, arg_count |-> argc,
     upvar_decls |-> upvars, yield_ty |-> yield, span |-> span]

CallSite(callee, substs, bb, location) ==
    [callee |-> callee, substs |-> substs, bb |-> bb, location |-> location]

-----------------------------------------------------------------------------
(* The programs the pass is run on.  DefIds: *)

SelfId == 0      \* the function under optimization (source.def_id)
FId == 1         \* the callee whose body and attributes vary
WrapId == 2      \* a function whose body calls FId
LeafId == 3      \* a small leaf function
GId == 4         \* a function whose body calls FId back
TraitId == 5     \* a trait method that resolves to FId
UnresId == 6     \* a call Instance::resolve cannot resolve
BoxFreeId == 7   \* the box_free lang item
ClosId == 8      \* a closure without captures
IntrinsicId == 9 \* a compiler intrinsic

DefIds == SelfId .. IntrinsicId

SrcInfo(span, scope) == SourceInfo(span, scope)
Lit(n) == Constant(Value(n))
Fn(d, n) == Constant(FnDef(d, n))
St(span, scope, kind) == Statement(SrcInfo(span, scope), kind)
Tm(span, scope, kind) == Terminator(SrcInfo(span, scope), kind)
Word == LocalDecl(FALSE, Some(ptr_size), FALSE, None, SrcInfo(20, 0))
Arg == Word
Temp(size, drop, scope) == LocalDecl(FALSE, size, drop, None, SrcInfo(20, scope))
Var(size, drop, scope) == LocalDecl(TRUE, size, drop, None, SrcInfo(20, scope))
RootScope == <<VisibilityScopeData(20, None)>>

\* fn(x) { x + 1 }
IncBody ==
    Mir(<<BasicBlockData(
            <<St(21, 0, Assign(Local(0), BinaryOp(Copy(Local(1)), Lit(1))))>>,
            Tm(22, 0, Return), FALSE)>>,
        RootScope, <<>>, <<Word, Arg>>, 1, 0, FALSE, 20)

\* fn(p: &mut T, v: T) { *p = v; 7 }
MutBody ==
    Mir(<<BasicBlockData(
            <<St(21, 0, Assign(Local(3), Use(Move(Local(2))))),
              St(21, 0, Assign(PlaceDeref(Local(1)), Use(Move(Local(3))))),
              St(21, 0, Assign(Local(0), Use(Lit(7))))>>,
            Tm(22, 0, Return), FALSE)>>,
        RootScope, <<>>, <<Word, Arg, Arg, Temp(Some(8), FALSE, 0)>>, 2, 0, FALSE, 20)

\* fn() { STATIC0 = 5; 7 }
StaticBody ==
    Mir(<<BasicBlockData(
            <<St(21, 0, Assign(Static(0), Use(Lit(5)))),
              St(21, 0, Assign(Local(0), Use(Lit(7))))>>,
            Tm(22, 0, Return), FALSE)>>,
        RootScope, <<>>, <<Word>>, 0, 0, FALSE, 20)

\* Bodies whose entry block ends in unreachable: n counted statements, and
\* the given locals after the return slot
DivergeBody(n, locals) ==
    Mir(<<BasicBlockData(
            [k \in 1 .. n |-> St(21, 0, Assign(Local(0), Use(Lit(k))))],
            Tm(22, 0, Unreachable), FALSE)>>,
        RootScope, <<>>, <<Word>> \o locals, 0, 0, FALSE, 20)

\* fn() -> ! { leaf() }: the entry block ends in a call that does not return
NoReturnBody ==
    Mir(<<BasicBlockData(<<>>,
            Tm(22, 0, Call(Fn(LeafId, 1), <<Lit(0)>>, None, None)), FALSE)>>,
        RootScope, <<>>, <<Word>>, 0, 0, FALSE, 20)

\* fn(x) { callee(x) }
CallsBody(callee, substs) ==
    Mir(<<BasicBlockData(<<>>,
            Tm(22, 0, Call(Fn(callee, substs), <<Copy(Local(1))>>,
                           Some(<<Local(0), 1>>), None)), FALSE),
          BasicBlockData(<<>>, Tm(23, 0, Return), FALSE)>>,
        RootScope, <<>>, <<Word, Arg>>, 1, 0, FALSE, 20)

\* A body with every kind of terminator the integrator rewrites, nested
\* scopes, a promoted constant and cleanup blocks
MultiBody ==
    Mir(<<BasicBlockData(
            <<St(21, 1, StorageLive(2)),
              St(21, 1, Assign(Local(2), Use(Constant(Promoted(0)))))>>,
            Tm(22, 1, SwitchInt(Copy(Local(1)), <<1, 2>>)), FALSE),
          BasicBlockData(
            <<St(23, 2, Assign(Local(3), Use(Copy(Local(1)))))>>,
            Tm(24, 2, Drop(Local(2), 3, None)), FALSE),
          BasicBlockData(<<>>,
            Tm(25, 1, AssertTerm(Copy(Local(1)), 3, Some(7))), FALSE),
          BasicBlockData(
            <<St(26, 2, Assign(Local(3), Use(Lit(9))))>>,
            Tm(27, 2, Call(Fn(LeafId, 1), <<Copy(Local(1))>>,
                           Some(<<Local(0), 4>>), None)), FALSE),
          BasicBlockData(
            <<St(28, 1, StorageDead(2))>>,
            Tm(29, 1, FalseEdges(5, <<6>>)), FALSE),
          BasicBlockData(<<>>,
            Tm(30, 1, DropAndReplace(Local(2), Lit(0), 6, Some(7))), FALSE),
          BasicBlockData(<<>>, Tm(31, 0, Return), FALSE),
          BasicBlockData(<<>>, Tm(32, 0, Drop(Local(2), 8, None)), TRUE),
          BasicBlockData(<<>>,
            Tm(33, 0, Call(Fn(LeafId, 1), <<Copy(Local(1))>>,
                           Some(<<Local(3), 9>>), None)), TRUE),
          BasicBlockData(<<>>, Tm(34, 0, Resume), TRUE)>>,
        <<VisibilityScopeData(20, None), VisibilityScopeData(21, Some(0)),
          VisibilityScopeData(22, Some(1))>>,
        <<"promoted0">>,
        <<Word, Arg, Temp(Some(16), TRUE, 1), Var(None, FALSE, 2)>>,
        1, 0, FALSE, 20)

\* A closure body that captures a variable: n counted statements
CaptureBody(n, term) ==
    Mir(<<BasicBlockData(
            [k \in 1 .. n |-> St(21, 0, Assign(Local(0), Use(Copy(Local(1)))))],
            Tm(22, 0, term), FALSE)>>,
        RootScope, <<>>, <<Word, Arg>>, 1, 1, FALSE, 20)

\* A generator body that is not transformed yet
GeneratorBody ==
    Mir(<<BasicBlockData(<<>>, Tm(22, 0, Yield(Copy(Local(1)), 1, None)), FALSE),
          BasicBlockData(<<>>, Tm(23, 0, Return), FALSE)>>,
        RootScope, <<>>, <<Word, Arg>>, 1, 0, TRUE, 20)

\* One block: n counted statements, return, one temporary of the given size
SmallBody(n, size) ==
    Mir(<<BasicBlockData(
            <<St(21, 0, StorageLive(2))>> \o
            [k \in 1 .. n |-> St(21, 0, Assign(Local(2), Use(Copy(Local(1)))))] \o
            <<St(21, 0, Assign(Local(0), Use(Move(Local(2)))))>>,
            Tm(22, 0, Return), FALSE)>>,
        RootScope, <<>>, <<Word, Arg, Temp(size, FALSE, 0)>>, 1, 0, FALSE, 20)

\* Four blocks: a drop of a value without drop glue (its unwind edge is not
\* traversed), return, two cleanup blocks, one temporary of the given size
FourBlockBody(size) ==
    Mir(<<BasicBlockData(
            <<St(21, 0, StorageLive(2))>>,
            Tm(22, 0, Drop(Local(2), 1, Some(2))), FALSE),
          BasicBlockData(<<St(23, 0, Nop)>>, Tm(23, 0, Return), FALSE),
          BasicBlockData(<<>>, Tm(24, 0, Goto(3)), TRUE),
          BasicBlockData(<<>>, Tm(25, 0, Resume), TRUE)>>,
        RootScope, <<>>, <<Word, Arg, Temp(size, FALSE, 0)>>, 1, 0, FALSE, 20)

\* Five blocks, two of them dead: goto, n counted statements, return
FiveBlockBody(n, size) ==
    Mir(<<BasicBlockData(<<>>, Tm(22, 0, Goto(1)), FALSE),
          BasicBlockData(
            [k \in 1 .. n |-> St(23, 0, Assign(Local(0), Use(Copy(Local(1)))))],
            Tm(23, 0, Return), FALSE),
          BasicBlockData(<<>>, Tm(24, 0, Goto(3)), FALSE),
          BasicBlockData(<<>>, Tm(25, 0, Abort), FALSE),
          BasicBlockData(<<>>, Tm(26, 0, Unreachable), FALSE)>>,
        RootScope, <<>>, <<Word, Arg, Temp(size, FALSE, 0)>>, 1, 0, FALSE, 20)

\* fn box_free(ptr: *mut T)
BoxFreeBody ==
    Mir(<<BasicBlockData(
            <<St(21, 0, Assign(Local(2), Use(Move(Local(1)))))>>,
            Tm(22, 0, Return), FALSE)>>,
        RootScope, <<>>, <<Word, Arg, Temp(Some(8), FALSE, 0)>>, 1, 0, FALSE, 20)

\* |a, b| a + b: the environment, then the two declared arguments
ClosureBody ==
    Mir(<<BasicBlockData(
            <<St(21, 0, Assign(Local(4), BinaryOp(Copy(Local(2)), Copy(Local(3))))),
              St(21, 0, Assign(Local(0), Use(Move(Local(4)))))>>,
            Tm(22, 0, Return), FALSE)>>,
        RootScope, <<>>, <<Word, Arg, Arg, Arg, Temp(Some(8), FALSE, 0)>>,
        3, 0, FALSE, 20)

\* fn leaf(x) { 3 }
LeafBody ==
    Mir(<<BasicBlockData(
            <<St(21, 0, Assign(Local(0), Use(Lit(3))))>>,
            Tm(22, 0, Return), FALSE)>>,
        RootScope, <<>>, <<Word, Arg>>, 1, 0, FALSE, 20)

\* fn wrap(args) { f(args) }
WrapBody(argc, substs) ==
    Mir(<<BasicBlockData(<<>>,
            Tm(22, 0, Call(Fn(FId, substs), [k \in 1 .. argc |-> Move(Local(k))],
                           Some(<<Local(0), 1>>), None)), FALSE),
          BasicBlockData(<<>>, Tm(23, 0, Return), FALSE)>>,
        RootScope, <<>>, <<Word>> \o [k \in 1 .. argc |-> Arg], argc, 0, FALSE, 20)

\* The bodies FId is given, each with the shape of its arguments
Template(mir, sig) == [mir |-> mir, sig |-> sig]

MaxStmts == 1

Templates ==
    {Template(IncBody, "int"), Template(MutBody, "refval"),
     Template(StaticBody, "none"), Template(NoReturnBody, "none"),
     Template(CallsBody(SelfId, 0), "int"), Template(CallsBody(FId, 1), "int"),
     Template(CallsBody(GId, 1), "int"), Template(CallsBody(IntrinsicId, 0), "int"),
     Template(MultiBody, "int"), Template(GeneratorBody, "int"),
     Template(FourBlockBody(Some(16)), "int"), Template(FourBlockBody(None), "int")}
    \cup {Template(DivergeBody(n, l), "none") :
            n \in 0 .. MaxStmts,
            l \in {<<>>, <<Temp(Some(8), FALSE, 0)>>, <<Temp(None, FALSE, 0)>>}}
    \cup {Template(CaptureBody(n, t), "int") :
            n \in 0 .. MaxStmts, t \in {Return, Unreachable}}
    \cup {Template(SmallBody(n, size), "int") :
            n \in 0 .. MaxStmts, size \in {Some(16), Some(400), None}}
    \cup {Template(FiveBlockBody(n, Some(16)), "int") : n \in 0 .. MaxStmts}

ShapeTemplates ==
    {Template(IncBody, "int"), Template(MutBody, "refval"),
     Template(StaticBody, "none"), Template(NoReturnBody, "none"),
     Template(CallsBody(SelfId, 0), "int"), Template(CallsBody(GId, 1), "int"),
     Template(MultiBody, "int")}

sig_argc(sig) == CASE sig = "none" -> 0 [] sig = "int" -> 1 [] sig = "refval" -> 2

-----------------------------------------------------------------------------
(* The compiler context.  tcx holds what varies between runs: the body of  *)
(* FId, what the attribute and crate queries answer about it, and the      *)
(* number of type parameters its call sites substitute.                    *)

Attrs(inline, cold) == [inline |-> inline, cold |-> cold]

InlineAttrs == {"None", "Hint", "Always", "Never"}

FocusInfos ==
    [attrs : {Attrs(i, c) : i \in InlineAttrs, c \in BOOLEAN},
     is_local : BOOLEAN, mir_available : {TRUE}]
    \cup {[attrs |-> Attrs("None", FALSE), is_local |-> FALSE,
           mir_available |-> FALSE]}

ShapeInfos ==
    {[attrs |-> Attrs(i, FALSE), is_local |-> FALSE, mir_available |-> TRUE] :
        i \in {"None", "Always", "Never"}}

DefaultInfo == [attrs |-> Attrs("Hint", FALSE), is_local |-> FALSE,
                mir_available |-> TRUE]

Tcx(info, tmpl, substs) == [info |-> info, tmpl |-> tmpl, substs |-> substs]

\* tcx.get_attrs
get_attrs(d) ==
    CASE d = FId -> tcx.info.attrs
      [] d \in {WrapId, BoxFreeId} -> Attrs("Hint", FALSE)
      [] OTHER -> Attrs("None", FALSE)

\* DefId::is_local
is_local(d) ==
    CASE d = FId -> tcx.info.is_local
      [] d \in {SelfId, ClosId} -> TRUE
      [] OTHER -> FALSE

\* tcx.is_mir_available
is_mir_available(d) ==
    CASE d = FId -> tcx.info.mir_available
      [] d \in {TraitId, UnresId, IntrinsicId} -> FALSE
      [] OTHER -> TRUE

\* The body the optimized_mir query computes for d
optimized_mir(d) ==
    CASE d = FId -> tcx.tmpl.mir
      [] d = WrapId -> WrapBody(sig_argc(tcx.tmpl.sig), tcx.substs)
      [] d = GId -> CallsBody(FId, 1)
      [] d = BoxFreeId -> BoxFreeBody
      [] d = ClosId -> ClosureBody
      [] OTHER -> LeafBody

\* tcx.fn_sig(def_id).abi()
fn_abi(d) == IF d = IntrinsicId THEN "RustIntrinsic" ELSE "Rust"

\* tcx.is_closure
is_closure(d) == d = ClosId

\* tcx.lang_items().box_free_fn()
box_free_fn == Some(BoxFreeId)

\* The queries in progress on the query stack of this pass
active_queries == {source.def_id}

\* Instance::resolve
resolve(def_id, substs) ==
    CASE def_id = TraitId -> Some([def_id |-> FId, substs |-> substs])
      [] def_id = UnresId -> None
      [] OTHER -> Some([def_id |-> def_id, substs |-> substs])

\* ty::queries::optimized_mir::try_get: Err when the query for def_id is
\* already in progress on the current query stack
try_get(def_id) ==
    IF def_id \in active_queries THEN [ok |-> FALSE]
    ELSE [ok |-> TRUE, mir |-> optimized_mir(def_id)]

MirSource(kind, promoted) == [def_id |-> SelfId, kind |-> kind, promoted |-> promoted]

NoAttempt == [outcome |-> "none"]

NoIntegrator ==
    [block_idx |-> 0, args |-> <<>>, local_map |-> <<>>, scope_map |-> <<>>,
     promoted_map |-> <<>>, destination |-> Local(RETURN_PLACE),
     return_block |-> START_BLOCK, cleanup_block |-> None]

-----------------------------------------------------------------------------
(* Queries on bodies and places (rustc::mir) *)

vars_and_temps_iter(mir) == (mir.arg_count + 1) .. (Len(mir.local_decls) - 1)

\* Mir::local_kind
local_kind(mir, local) ==
    IF local = RETURN_PLACE THEN "ReturnPointer"
    ELSE IF local <= mir.arg_count THEN "Arg"
    ELSE IF At(mir.local_decls, local).is_user_variable THEN "Var"
    ELSE "Temp"

\* TerminatorKind::successors
successors(kind) ==
    CASE kind.kind = "Goto" -> <<kind.target>>
      [] kind.kind = "SwitchInt" -> kind.targets
      [] kind.kind = "Call" ->
            (IF IsSome(kind.destination)
             THEN <<Unwrap(kind.destination)[2]>> ELSE <<>>) \o kind.cleanup
      [] kind.kind \in {"Drop", "DropAndReplace"} -> <<kind.target>> \o kind.unwind
      [] kind.kind = "Assert" -> <<kind.target>> \o kind.cleanup
      [] kind.kind = "FalseEdges" -> <<kind.real_target>> \o kind.imaginary_targets
      [] kind.kind = "Yield" -> <<kind.resume>> \o kind.drop
      [] OTHER -> <<>>

RECURSIVE place_root(_)
place_root(place) ==
    IF place.kind = "Projection" THEN place_root(place.base) ELSE place

\* location.ty(callee_mir, tcx) ... needs_drop(tcx, param_env): the drop glue
\* of the dropped value's type; the model keeps it with the declaration of
\* the local the place is rooted in.
place_needs_drop(mir, place) ==
    LET root == place_root(place)
    IN  root.kind = "Local" /\ At(mir.local_decls, root.local).needs_drop

\* type_size_of
type_size_of(decl) == decl.size

-----------------------------------------------------------------------------
(* Inliner::should_inline *)

find_inline_attr(callee) == get_attrs(callee).inline

is_hinted(callee) == find_inline_attr(callee) \in {"Always", "Hint"}

\* initial_threshold without the division for a cold callee
initial_threshold_without_cold(callsite, callee_mir) ==
    LET t0 == IF is_hinted(callsite.callee) THEN HINT_THRESHOLD
              ELSE DEFAULT_THRESHOLD
    IN  IF Len(callee_mir.basic_blocks) <= 3 THEN t0 + (t0 \div 4) ELSE t0

\* The threshold before the traversal of the callee's blocks.
initial_threshold(callsite, callee_mir) ==
    LET t0 == IF is_hinted(callsite.callee) THEN HINT_THRESHOLD
              ELSE DEFAULT_THRESHOLD
        t1 == IF get_attrs(callsite.callee).cold THEN t0 \div 5 ELSE t0
    IN  IF Len(callee_mir.basic_blocks) <= 3 THEN t1 + (t1 \div 4) ELSE t1

statement_cost(stmt) ==
    IF stmt.kind.kind \in {"StorageLive", "StorageDead", "Nop"} THEN 0
    ELSE INSTR_COST

\* terminator_step without the arm for a diverging entry block
terminator_step_without_divergence(callee_mir, kind, first_block, threshold) ==
    IF kind.kind \in {"Drop", "DropAndReplace"}
    THEN IF place_needs_drop(callee_mir, kind.location)
         THEN [cost |-> CALL_PENALTY, threshold |-> threshold,
               push |-> <<kind.target>> \o kind.unwind]
         ELSE [cost |-> INSTR_COST, threshold |-> threshold,
               push |-> <<kind.target>>]
    ELSE IF kind.kind = "Call" /\ kind.func.kind = "Constant"
    THEN [cost |-> IF kind.func.literal.kind = "FnDef"
                   THEN IF fn_abi(kind.func.literal.def_id)
                             \in {"RustIntrinsic", "PlatformIntrinsic"}
                        THEN INSTR_COST ELSE CALL_PENALTY
                   ELSE 0,
          threshold |-> threshold, push |-> successors(kind)]
    ELSE IF kind.kind = "Assert"
    THEN [cost |-> CALL_PENALTY, threshold |-> threshold,
          push |-> successors(kind)]
    ELSE [cost |-> INSTR_COST, threshold |-> threshold,
          push |-> successors(kind)]

\* One iteration of the match on term.kind (arms tried in order): the cost
\* added, the threshold after it, and the blocks pushed on the work list.
terminator_step(callee_mir, kind, first_block, threshold) ==
    IF kind.kind \in {"Drop", "DropAndReplace"}
    THEN IF place_needs_drop(callee_mir, kind.location)
         THEN [cost |-> CALL_PENALTY, threshold |-> threshold,
               push |-> <<kind.target>> \o kind.unwind]
         ELSE [cost |-> INSTR_COST, threshold |-> threshold,
               push |-> <<kind.target>>]
    ELSE IF /\ first_block
            /\ \/ kind.kind = "Unreachable"
               \/ kind.kind = "Call" /\ kind.destination = None
    THEN [cost |-> 0, threshold |-> 0, push |-> successors(kind)]
    ELSE IF kind.kind = "Call" /\ kind.func.kind = "Constant"
    THEN [cost |-> IF kind.func.literal.kind = "FnDef"
                   THEN IF fn_abi(kind.func.literal.def_id)
                             \in {"RustIntrinsic", "PlatformIntrinsic"}
                        THEN INSTR_COST ELSE CALL_PENALTY
                   ELSE 0,
          threshold |-> threshold, push |-> successors(kind)]
    ELSE IF kind.kind = "Assert"
    THEN [cost |-> CALL_PENALTY, threshold |-> threshold,
          push |-> successors(kind)]
    ELSE [cost |-> INSTR_COST, threshold |-> threshold,
          push |-> successors(kind)]

\* The variables of the while loop over work_list
TraversalStates ==
    [work_list : Seq(Nat), visited : SUBSET Nat, cost : Nat, threshold : Nat,
     first_block : BOOLEAN]

\* The while loop over work_list (a Vec used as a stack: pop takes the last
\* element) with the visited bit vector, as a function of the loop variables.
traverse(callee_mir, work_list, threshold) ==
    LET loop[st \in TraversalStates] ==
            IF st.work_list = <<>> THEN st
            ELSE LET bb == st.work_list[Len(st.work_list)]
                     rest == SubSeq(st.work_list, 1, Len(st.work_list) - 1)
                     blk == At(callee_mir.basic_blocks, bb)
                     stmts == SeqSum(SeqMap(statement_cost, blk.statements))
                     step == terminator_step(callee_mir, blk.terminator.kind,
                                             st.first_block, st.threshold)
                 IN  IF bb \in st.visited
                     THEN loop[[st EXCEPT !.work_list = rest]]
                     ELSE loop[[work_list |-> rest \o step.push,
                                visited |-> st.visited \cup {bb},
                                cost |-> st.cost + stmts + step.cost,
                                threshold |-> step.threshold,
                                first_block |-> FALSE]]
    IN  loop[[work_list |-> work_list, visited |-> {}, cost |-> 0,
              threshold |-> threshold, first_block |-> TRUE]]

local_cost(decl) ==
    IF IsSome(type_size_of(decl)) THEN Unwrap(type_size_of(decl)) \div ptr_size
    ELSE UNKNOWN_SIZE_COST

locals_cost(callee_mir) ==
    SeqSum([k \in 1 .. (Len(callee_mir.local_decls) - callee_mir.arg_count - 1) |->
                local_cost(At(callee_mir.local_decls, callee_mir.arg_count + k))])

\* cost and threshold as compared at the end of should_inline
cost_and_threshold(callsite, callee_mir) ==
    LET t == traverse(callee_mir, <<START_BLOCK>>,
                      initial_threshold(callsite, callee_mir))
    IN  [cost |-> t.cost + locals_cost(callee_mir), threshold |-> t.threshold]

\* should_inline with inline(never) treated as the absence of a hint
should_inline_without_never(callsite, callee_mir) ==
    IF callee_mir.upvar_decls > 0 THEN FALSE
    ELSE IF callee_mir.yield_ty THEN FALSE
    ELSE IF /\ is_local(callsite.callee)
            /\ callsite.substs = 0
            /\ ~is_hinted(callsite.callee) THEN FALSE
    ELSE IF find_inline_attr(callsite.callee) = "Always" THEN TRUE
    ELSE LET ct == cost_and_threshold(callsite, callee_mir)
         IN  ct.cost <= ct.threshold

\* should_inline without the check of upvar_decls
should_inline_without_upvars(callsite, callee_mir) ==
    IF callee_mir.yield_ty THEN FALSE
    ELSE IF find_inline_attr(callsite.callee) = "Never" THEN FALSE
    ELSE IF /\ is_local(callsite.callee)
            /\ callsite.substs = 0
            /\ ~is_hinted(callsite.callee) THEN FALSE
    ELSE IF find_inline_attr(callsite.callee) = "Always" THEN TRUE
    ELSE LET ct == cost_and_threshold(callsite, callee_mir)
         IN  ct.cost <= ct.threshold

should_inline(callsite, callee_mir) ==
    IF callee_mir.upvar_decls > 0 THEN FALSE
    ELSE IF callee_mir.yield_ty THEN FALSE
    ELSE IF find_inline_attr(callsite.callee) = "Never" THEN FALSE
    ELSE IF /\ is_local(callsite.callee)
            /\ callsite.substs = 0
            /\ ~is_hinted(callsite.callee) THEN FALSE
    ELSE IF find_inline_attr(callsite.callee) = "Always" THEN TRUE
    ELSE LET ct == cost_and_threshold(callsite, callee_mir)
         IN  ct.cost <= ct.threshold

-----------------------------------------------------------------------------
(* Integrator *)

\* bug!(): the value left where the visitor aborts the compilation
BugLocal == 0 - 1
Bug == [kind |-> "Bug"]

\* update_target that keeps the callee's index
update_target_without_offset(itg, tgt) == tgt

update_target(itg, tgt) == tgt + itg.block_idx

update_targets(itg, tgts) == [k \in 1 .. Len(tgts) |-> update_target(itg, tgts[k])]

visit_local(itg, local) ==
    IF local = RETURN_PLACE
    THEN IF itg.destination.kind = "Local" THEN itg.destination.local
         ELSE BugLocal
    ELSE LET idx == local - 1
         IN  IF idx < Len(itg.args) THEN At(itg.args, idx)
             ELSE At(itg.local_map, idx - Len(itg.args))

\* visit_place that leaves the return slot to visit_local
RECURSIVE visit_place_super_only(_, _)
visit_place_super_only(itg, place) ==
    CASE place.kind = "Local" -> Local(visit_local(itg, place.local))
      [] place.kind = "Static" -> place
      [] place.kind = "Projection" ->
            Projection(visit_place_super_only(itg, place.base),
                       IF place.elem.kind = "Index"
                       THEN Index(visit_local(itg, place.elem.local))
                       ELSE place.elem)

RECURSIVE visit_place(_, _)
visit_place(itg, place) ==
    IF place = Local(RETURN_PLACE) THEN itg.destination
    ELSE CASE place.kind = "Local" -> Local(visit_local(itg, place.local))
           [] place.kind = "Static" -> place
           [] place.kind = "Projection" ->
                Projection(visit_place(itg, place.base),
                           IF place.elem.kind = "Index"
                           THEN Index(visit_local(itg, place.elem.local))
                           ELSE place.elem)

visit_literal(itg, literal) ==
    IF literal.kind = "Promoted" /\ literal.index < Len(itg.promoted_map)
    THEN Promoted(At(itg.promoted_map, literal.index))
    ELSE literal

visit_operand(itg, op) ==
    IF op.kind = "Constant" THEN Constant(visit_literal(itg, op.literal))
    ELSE [op EXCEPT !.place = visit_place(itg, op.place)]

visit_rvalue(itg, rv) ==
    CASE rv.kind = "Use" -> Use(visit_operand(itg, rv.operand))
      [] rv.kind = "Ref" -> Ref(visit_place(itg, rv.place))
      [] rv.kind = "BinaryOp" ->
            BinaryOp(visit_operand(itg, rv.lhs), visit_operand(itg, rv.rhs))
      [] rv.kind = "Cast" -> Cast(visit_operand(itg, rv.operand))
      [] rv.kind = "Aggregate" ->
            Aggregate([k \in 1 .. Len(rv.operands) |->
                           visit_operand(itg, rv.operands[k])])

visit_visibility_scope(itg, scope) == At(itg.scope_map, scope)

visit_source_info(itg, si) ==
    [si EXCEPT !.scope = visit_visibility_scope(itg, si.scope)]

visit_statement(itg, stmt) ==
    Statement(visit_source_info(itg, stmt.source_info),
        CASE stmt.kind.kind = "Assign" ->
                Assign(visit_place(itg, stmt.kind.place),
                       visit_rvalue(itg, stmt.kind.rvalue))
          [] stmt.kind.kind \in {"StorageLive", "StorageDead"} ->
                [stmt.kind EXCEPT !.local = visit_local(itg, stmt.kind.local)]
          [] OTHER -> stmt.kind)

\* MutVisitor::super_terminator_kind: the operands and places of the kind
super_terminator_kind(itg, kind) ==
    CASE kind.kind = "SwitchInt" ->
            [kind EXCEPT !.discr = visit_operand(itg, kind.discr)]
      [] kind.kind = "Call" ->
            [kind EXCEPT
                !.func = visit_operand(itg, kind.func),
                !.args = [k \in 1 .. Len(kind.args) |->
                              visit_operand(itg, kind.args[k])],
                !.destination =
                    IF IsSome(kind.destination)
                    THEN Some(<<visit_place(itg, Unwrap(kind.destination)[1]),
                                Unwrap(kind.destination)[2]>>)
                    ELSE None]
      [] kind.kind = "Drop" ->
            [kind EXCEPT !.location = visit_place(itg, kind.location)]
      [] kind.kind = "DropAndReplace" ->
            [kind EXCEPT !.location = visit_place(itg, kind.location),
                         !.value = visit_operand(itg, kind.value)]
      [] kind.kind = "Assert" ->
            [kind EXCEPT !.cond = visit_operand(itg, kind.cond)]
      [] kind.kind = "Yield" ->
            [kind EXCEPT !.value = visit_operand(itg, kind.value)]
      [] OTHER -> kind

\* update_unwind without the test of in_cleanup_block
update_unwind_in_cleanup_too(itg, in_cleanup_block, unwind) ==
    IF IsSome(unwind) THEN Some(update_target(itg, Unwrap(unwind)))
    ELSE itg.cleanup_block

\* The unwind edge of a drop, call or assert after the rewrite
update_unwind(itg, in_cleanup_block, unwind) ==
    IF IsSome(unwind) THEN Some(update_target(itg, Unwrap(unwind)))
    ELSE IF ~in_cleanup_block THEN itg.cleanup_block
    ELSE unwind

visit_terminator_kind(itg, in_cleanup_block, kind0) ==
    LET kind == super_terminator_kind(itg, kind0)
    IN  CASE kind.kind \in {"GeneratorDrop", "Yield"} -> Bug
          [] kind.kind = "Goto" ->
                [kind EXCEPT !.target = update_target(itg, kind.target)]
          [] kind.kind = "SwitchInt" ->
                [kind EXCEPT !.targets = update_targets(itg, kind.targets)]
          [] kind.kind \in {"Drop", "DropAndReplace"} ->
                [kind EXCEPT
                    !.target = update_target(itg, kind.target),
                    !.unwind = update_unwind(itg, in_cleanup_block, kind.unwind)]
          [] kind.kind = "Call" ->
                [kind EXCEPT
                    !.destination =
                        IF IsSome(kind.destination)
                        THEN Some(<<Unwrap(kind.destination)[1],
                                    update_target(itg, Unwrap(kind.destination)[2])>>)
                        ELSE None,
                    !.cleanup = update_unwind(itg, in_cleanup_block, kind.cleanup)]
          [] kind.kind = "Assert" ->
                [kind EXCEPT
                    !.target = update_target(itg, kind.target),
                    !.cleanup = update_unwind(itg, in_cleanup_block, kind.cleanup)]
          [] kind.kind = "Return" -> Goto(itg.return_block)
          [] kind.kind = "Resume" ->
                IF IsSome(itg.cleanup_block) THEN Goto(Unwrap(itg.cleanup_block))
                ELSE kind
          [] kind.kind = "FalseEdges" ->
                [kind EXCEPT
                    !.real_target = update_target(itg, kind.real_target),
                    !.imaginary_targets =
                        update_targets(itg, kind.imaginary_targets)]
          [] OTHER -> kind

visit_basic_block_data(itg, data) ==
    BasicBlockData(
        [k \in 1 .. Len(data.statements) |-> visit_statement(itg, data.statements[k])],
        Terminator(visit_source_info(itg, data.terminator.source_info),
                   visit_terminator_kind(itg, data.is_cleanup, data.terminator.kind)),
        data.is_cleanup)

-----------------------------------------------------------------------------
(* Types of the temporaries the pass declares.  A type is kept as what the *)
(* pass asks of it: its size, its drop glue, its fields when a tuple.      *)

ARGUMENT_VISIBILITY_SCOPE == 0

Ty(size, drop, fields) == [size |-> size, needs_drop |-> drop, tuple_fields |-> fields]

ptr_ty == Ty(Some(ptr_size), FALSE, None)

decl_ty(decl) == Ty(decl.size, decl.needs_drop, decl.tuple_fields)

\* Operand::ty
operand_ty(mir, op) ==
    IF op.kind # "Constant" /\ op.place.kind = "Local"
    THEN decl_ty(At(mir.local_decls, op.place.local))
    ELSE ptr_ty

\* LocalDecl::new_temp
new_temp(ty, span) ==
    LocalDecl(FALSE, ty.size, ty.needs_drop, ty.tuple_fields,
              SourceInfo(span, ARGUMENT_VISIBILITY_SCOPE))

\* push_local that puts the declaration in front of the others
push_local_front(mir, decl) == [mir EXCEPT !.local_decls = <<decl>> \o @]

push_local(mir, decl) == [mir EXCEPT !.local_decls = Append(@, decl)]

push_statement(mir, bb, stmt) ==
    [mir EXCEPT !.basic_blocks[bb + 1].statements = Append(@, stmt)]

-----------------------------------------------------------------------------
(* Inliner::create_temp_if_necessary, make_call_args, cast_box_free_arg *)

create_temp_if_necessary(arg, callsite, mir) ==
    IF /\ arg.kind = "Move"
       /\ arg.place.kind = "Local"
       /\ local_kind(mir, arg.place.local) = "Temp"
    THEN [local |-> arg.place.local, mir |-> mir]
    ELSE LET arg_tmp == Len(mir.local_decls)
             m1 == push_local(mir, new_temp(operand_ty(mir, arg),
                                            callsite.location.span))
         IN  [local |-> arg_tmp,
              mir |-> push_statement(m1, callsite.bb,
                          Statement(callsite.location,
                                    Assign(Local(arg_tmp), Use(arg))))]

\* args.into_iter().map(|a| self.create_temp_if_necessary(a, ..)).collect()
RECURSIVE marshal(_, _, _, _)
marshal(args, callsite, mir, acc) ==
    IF args = <<>> THEN [args |-> acc, mir |-> mir, ice |-> FALSE]
    ELSE LET r == create_temp_if_necessary(Head(args), callsite, mir)
         IN  marshal(Tail(args), callsite, r.mir, Append(acc, r.local))

make_call_args(args, callsite, mir) ==
    IF is_closure(callsite.callee)
    THEN IF Len(args) # 2 THEN [args |-> <<>>, mir |-> mir, ice |-> TRUE]
         ELSE LET self_ == create_temp_if_necessary(args[1], callsite, mir)
                  tuple == create_temp_if_necessary(args[2], callsite, self_.mir)
                  tuple_tys == At(tuple.mir.local_decls, tuple.local).tuple_fields
              IN  IF tuple_tys = None
                  THEN [args |-> <<>>, mir |-> tuple.mir, ice |-> TRUE]
                  ELSE marshal([i \in 1 .. Unwrap(tuple_tys) |->
                                    Move(PlaceField(Local(tuple.local), i - 1))],
                               callsite, tuple.mir, <<self_.local>>)
    ELSE marshal(args, callsite, mir, <<>>)

cast_box_free_arg(arg, callsite, mir) ==
    LET ref_tmp == Len(mir.local_decls)
        m1 == push_local(mir, new_temp(ptr_ty, callsite.location.span))
        m2 == push_statement(m1, callsite.bb,
                  Statement(callsite.location,
                            Assign(Local(ref_tmp), Ref(PlaceDeref(arg)))))
        cast_tmp == Len(m2.local_decls)
        m3 == push_local(m2, new_temp(ptr_ty, callsite.location.span))
    IN  [local |-> cast_tmp,
         mir |-> push_statement(m3, callsite.bb,
                    Statement(callsite.location,
                              Assign(Local(cast_tmp), Cast(Move(Local(ref_tmp))))))]

-----------------------------------------------------------------------------
(* Inliner::inline_call *)

\* dest_needs_borrow that looks at the outermost dereference only
dest_needs_borrow_deref_only(place) ==
    \/ place.kind = "Static"
    \/ place.kind = "Projection" /\ place.elem.kind = "Deref"

RECURSIVE dest_needs_borrow(_)
dest_needs_borrow(place) ==
    CASE place.kind = "Projection" ->
            IF place.elem.kind \in {"Deref", "Index"} THEN TRUE
            ELSE dest_needs_borrow(place.base)
      [] place.kind = "Static" -> TRUE
      [] OTHER -> FALSE

\* The loop over callee_mir.visibility_scopes
inlined_scopes(callsite, callee_mir) ==
    [k \in 1 .. Len(callee_mir.visibility_scopes) |->
        LET scope == callee_mir.visibility_scopes[k]
        IN  VisibilityScopeData(callsite.location.span,
                IF scope.parent_scope = None THEN Some(callsite.location.scope)
                ELSE scope.parent_scope)]

\* The loop over callee_mir.vars_and_temps_iter()
inlined_locals(callsite, callee_mir, scope_map) ==
    [k \in 1 .. (Len(callee_mir.local_decls) - callee_mir.arg_count - 1) |->
        LET local == At(callee_mir.local_decls, callee_mir.arg_count + k)
        IN  [local EXCEPT !.source_info =
                SourceInfo(callsite.location.span,
                           At(scope_map, local.source_info.scope))]]

\* pushed with the index of the first push kept for all of them
pushed_first(first, n) == [k \in 1 .. n |-> first]

\* The index vector of the indices n pushes return, starting at first
pushed(first, n) == [k \in 1 .. n |-> first + k - 1]

\* The Some(destination) arm of inline_call, for the terminator taken from
\* the call site's block.
inline_call_some(callsite, mir, callee_mir, terminator) ==
    LET kind == terminator.kind
        destination == Unwrap(kind.destination)
        is_box_free == Some(callsite.callee) = box_free_fn
        scope_map == pushed(Len(mir.visibility_scopes),
                            Len(callee_mir.visibility_scopes))
        local_map == pushed(Len(mir.local_decls),
                            Len(callee_mir.local_decls) - callee_mir.arg_count - 1)
        promoted_map == pushed(Len(mir.promoted), Len(callee_mir.promoted))
        m1 == [mir EXCEPT
                 !.visibility_scopes = @ \o inlined_scopes(callsite, callee_mir),
                 !.local_decls = @ \o inlined_locals(callsite, callee_mir, scope_map),
                 !.promoted = @ \o callee_mir.promoted]
        borrow == dest_needs_borrow(destination[1])
        tmp == Len(m1.local_decls)
        m2 == IF borrow
              THEN push_statement(
                       push_local(m1, new_temp(ptr_ty, callsite.location.span)),
                       callsite.bb,
                       Statement(callsite.location,
                                 Assign(Local(tmp), Ref(destination[1]))))
              ELSE m1
        dest == IF borrow THEN PlaceDeref(Local(tmp)) ELSE destination[1]
        box_ice == is_box_free /\ (Len(kind.args) # 1 \/ kind.args[1].kind # "Move")
        args == IF box_ice THEN [args |-> <<>>, mir |-> m2, ice |-> TRUE]
                ELSE IF is_box_free
                THEN LET r == cast_box_free_arg(kind.args[1].place, callsite, m2)
                     IN  [args |-> <<r.local>>, mir |-> r.mir, ice |-> FALSE]
                ELSE make_call_args(kind.args, callsite, m2)
        m3 == args.mir
        bb_len == Len(m3.basic_blocks)
        itg == [block_idx |-> bb_len, args |-> args.args, local_map |-> local_map,
                scope_map |-> scope_map, promoted_map |-> promoted_map,
                destination |-> dest, return_block |-> destination[2],
                cleanup_block |-> kind.cleanup]
        blocks == IF args.ice THEN <<>>
                  ELSE [k \in 1 .. Len(callee_mir.basic_blocks) |->
                           visit_basic_block_data(itg, callee_mir.basic_blocks[k])]
        m4 == [m3 EXCEPT
                 !.basic_blocks = @ \o blocks,
                 !.basic_blocks[callsite.bb + 1].terminator =
                     Terminator(callsite.location, Goto(bb_len))]
    IN  [ok |-> TRUE, mir |-> m4, integrator |-> itg, ice |-> args.ice]

\* inline_call that leaves the taken terminator out on failure
inline_call_without_restore(callsite, mir, callee_mir) ==
    LET terminator == At(mir.basic_blocks, callsite.bb).terminator
    IN  IF terminator.kind.kind = "Call" /\ IsSome(terminator.kind.destination)
        THEN inline_call_some(callsite, mir, callee_mir, terminator)
        ELSE [ok |-> FALSE,
              mir |-> [mir EXCEPT !.basic_blocks[callsite.bb + 1].terminator = None],
              integrator |-> integrator, ice |-> FALSE]

inline_call(callsite, mir, callee_mir) ==
    LET terminator == At(mir.basic_blocks, callsite.bb).terminator
    IN  IF terminator.kind.kind = "Call" /\ IsSome(terminator.kind.destination)
        THEN inline_call_some(callsite, mir, callee_mir, terminator)
        ELSE [ok |-> FALSE,
              mir |-> [mir EXCEPT !.basic_blocks[callsite.bb + 1].terminator =
                          Terminator(terminator.source_info, terminator.kind)],
              integrator |-> integrator, ice |-> FALSE]

-----------------------------------------------------------------------------
(* Inliner::run_pass: the scans and the provider *)

is_direct_call(kind) ==
    /\ kind.kind = "Call"
    /\ kind.func.kind = "Constant"
    /\ kind.func.literal.kind = "FnDef"

\* The scan of the caller's blocks before the loop
RECURSIVE initial_callsites(_, _)
initial_callsites(mir, bb) ==
    IF bb >= Len(mir.basic_blocks) THEN <<>>
    ELSE LET bb_data == At(mir.basic_blocks, bb)
             terminator == bb_data.terminator
             f == terminator.kind.func.literal
             instance == resolve(f.def_id, f.substs)
         IN  (IF /\ ~bb_data.is_cleanup
                 /\ is_direct_call(terminator.kind)
                 /\ IsSome(instance)
              THEN <<CallSite(Unwrap(instance).def_id, Unwrap(instance).substs,
                              bb, terminator.source_info)>>
              ELSE <<>>) \o initial_callsites(mir, bb + 1)

\* The scan of the blocks appended by a successful inline_call
RECURSIVE inlined_callsites(_, _, _)
inlined_callsites(callsite, mir, bb) ==
    IF bb >= Len(mir.basic_blocks) THEN <<>>
    ELSE LET terminator == At(mir.basic_blocks, bb).terminator
             f == terminator.kind.func.literal
         IN  (IF /\ is_direct_call(terminator.kind)
                 /\ callsite.callee # f.def_id
              THEN <<CallSite(f.def_id, f.substs, bb, terminator.source_info)>>
              ELSE <<>>) \o inlined_callsites(callsite, mir, bb + 1)

\* The types of the model carry their layout under the call site's
\* substitution, which is what the folder resolves them to.
subst_and_normalize(mir, substs) == mir

-----------------------------------------------------------------------------
(* The body under optimization *)

CVar(size, fields) == LocalDecl(TRUE, size, FALSE, fields, SrcInfo(1, 1))
CTemp(size, fields) == LocalDecl(FALSE, size, FALSE, fields, SrcInfo(1, 1))

\* _0 ret, _1 x (argument), _2 arr, _3 idx, _4 p, _5 t, _6 tup, _7 q, _8 a,
\* _9 b, _10 r, _11 env, _12 boxed
CallerLocals ==
    <<LocalDecl(FALSE, Some(8), FALSE, None, SrcInfo(1, 0)),
      LocalDecl(FALSE, Some(8), FALSE, None, SrcInfo(1, 0)),
      CVar(Some(24), None), CVar(Some(8), None), CTemp(Some(8), None),
      CTemp(Some(8), None), CTemp(Some(16), Some(2)), CVar(Some(8), None),
      CVar(Some(8), None), CVar(Some(8), None), CTemp(Some(8), None),
      CTemp(Some(8), None), CTemp(Some(8), None)>>

CallerScopes == <<VisibilityScopeData(1, None), VisibilityScopeData(2, Some(0))>>

Prelude(shape) ==
    <<St(2, 1, Assign(Local(2), Aggregate(<<Lit(0), Lit(0), Lit(0)>>))),
      St(2, 1, Assign(Local(3), Use(Lit(0)))),
      St(2, 1, Assign(Local(8), Use(Lit(0)))),
      St(2, 1, Assign(Local(9), Use(Lit(0)))),
      St(2, 1, Assign(Local(7), Ref(Local(8)))),
      St(2, 1, Assign(Local(6), Aggregate(<<Lit(4), Lit(5)>>))),
      St(2, 1, Assign(Local(5), Use(Copy(Local(1))))),
      St(2, 1, Assign(Local(10), Ref(Local(9)))),
      St(2, 1, Assign(Local(11), Ref(Local(3)))),
      St(2, 1, Assign(Local(12), Ref(Local(8)))),
      St(2, 1, Assign(Local(4),
                      IF shape = "deref" THEN Ref(Local(7)) ELSE Ref(Local(3))))>>

\* The operands of a call to a function with the given argument shape
CallArgs(sig, shape) ==
    CASE sig = "none" -> <<>>
      [] sig = "int" ->
            IF shape \in {"local", "wrap", "field"} THEN <<Move(Local(5))>>
            ELSE IF shape \in {"index", "rec"} THEN <<Copy(Local(1))>>
            ELSE <<Lit(3)>>
      [] sig = "refval" ->
            IF shape = "deref" THEN <<Move(Local(4)), Move(Local(10))>>
            ELSE <<Move(Local(4)), Lit(2)>>

CallerDest(shape) ==
    CASE shape = "index" -> Projection(Local(2), Index(3))
      [] shape = "deref" -> PlaceDeref(Local(7))
      [] shape = "static" -> Static(0)
      [] shape = "field" -> PlaceField(Local(6), 0)
      [] OTHER -> Local(5)

Body(blocks) ==
    Mir(blocks, CallerScopes, <<"caller_promoted0">>, CallerLocals, 1, 0, FALSE, 1)

Ret(span) == BasicBlockData(<<>>, Tm(span, 0, Return), FALSE)
Landing(span) == BasicBlockData(<<>>, Tm(span, 0, Resume), TRUE)

FocusShapes ==
    {"local", "index", "deref", "static", "field", "nodest", "cleanup", "wrap",
     "rec", "misc"}
FixedShapes == {"boxfree", "closure", "nonfn", "promoted"}

CallerBody(shape, sig, substs) ==
    LET args == CallArgs(sig, shape)
        f == Fn(FId, substs)
    IN  CASE shape \in {"local", "nonfn", "promoted"} ->
              Body(<<BasicBlockData(Prelude(shape),
                        Tm(10, 1, Call(f, args, Some(<<Local(5), 1>>), Some(2))),
                        FALSE),
                     BasicBlockData(
                        <<St(11, 1, Assign(Local(0), Use(Move(Local(5)))))>>,
                        Tm(11, 0, Return), FALSE),
                     Landing(12)>>)
          [] shape \in {"index", "deref", "static", "field"} ->
              Body(<<BasicBlockData(Prelude(shape),
                        Tm(10, 1, Call(f, args, Some(<<CallerDest(shape), 1>>), None)),
                        FALSE),
                     Ret(11)>>)
          [] shape = "nodest" ->
              Body(<<BasicBlockData(Prelude(shape),
                        Tm(10, 1, Call(f, args, None, Some(1))), FALSE),
                     Landing(12)>>)
          [] shape = "cleanup" ->
              Body(<<BasicBlockData(Prelude(shape),
                        Tm(10, 1, Drop(Local(2), 1, Some(2))), FALSE),
                     Ret(11),
                     BasicBlockData(<<>>,
                        Tm(12, 1, Call(f, args, Some(<<Local(5), 3>>), None)), TRUE),
                     Landing(13)>>)
          [] shape = "wrap" ->
              Body(<<BasicBlockData(Prelude(shape),
                        Tm(10, 1, Call(Fn(WrapId, substs), args,
                                       Some(<<Local(5), 1>>), Some(2))), FALSE),
                     Ret(11), Landing(12)>>)
          [] shape = "rec" ->
              Body(<<BasicBlockData(Prelude(shape),
                        Tm(10, 1, Call(Fn(SelfId, 0), <<Copy(Local(1))>>,
                                       Some(<<Local(0), 1>>), None)), FALSE),
                     BasicBlockData(<<>>,
                        Tm(11, 1, Call(f, args, Some(<<Local(5), 2>>), None)), FALSE),
                     Ret(12)>>)
          [] shape = "misc" ->
              Body(<<BasicBlockData(Prelude(shape),
                        Tm(10, 1, Call(Copy(Local(4)), args,
                                       Some(<<Local(5), 1>>), None)), FALSE),
                     BasicBlockData(<<>>,
                        Tm(11, 1, Call(Fn(UnresId, substs), <<>>,
                                       Some(<<Local(5), 2>>), None)), FALSE),
                     BasicBlockData(<<>>,
                        Tm(12, 1, Call(Fn(TraitId, substs), args,
                                       Some(<<Local(5), 3>>), None)), FALSE),
                     Ret(13)>>)
          [] shape = "boxfree" ->
              Body(<<BasicBlockData(Prelude(shape),
                        Tm(10, 1, Call(Fn(BoxFreeId, 1), <<Move(Local(12))>>,
                                       Some(<<Local(5), 1>>), Some(2))), FALSE),
                     Ret(11), Landing(12)>>)
          [] shape = "closure" ->
              Body(<<BasicBlockData(Prelude(shape),
                        Tm(10, 1, Call(Fn(ClosId, 1),
                                       <<Move(Local(11)), Move(Local(6))>>,
                                       Some(<<Local(5), 1>>), Some(2))), FALSE),
                     Ret(11), Landing(12)>>)

-----------------------------------------------------------------------------
(* The initial states *)

InitCommon ==
    /\ callsites = <<>>
    /\ local_change = FALSE
    /\ changed = FALSE
    /\ pc = "start"
    /\ attempt = NoAttempt
    /\ integrator = NoIntegrator
    /\ simplify_runs = 0

\* Every body and every answer of the queries, at a plain call site
InitHeuristic ==
    \E tmpl \in Templates, info \in FocusInfos, substs \in 0 .. 1 :
        /\ tcx = Tcx(info, tmpl, substs)
        /\ source = MirSource("Fn", None)
        /\ caller_mir = CallerBody("local", tmpl.sig, substs)

\* Every shape of call site, for the bodies the integrator treats differently
InitShapes ==
    \E shape \in FocusShapes \ {"local"}, tmpl \in ShapeTemplates,
       info \in ShapeInfos :
        /\ tcx = Tcx(info, tmpl, 1)
        /\ source = MirSource("Fn", None)
        /\ caller_mir = CallerBody(shape, tmpl.sig, 1)

InitFixed ==
    \E shape \in FixedShapes :
        /\ tcx = Tcx(DefaultInfo, Template(IncBody, "int"), 1)
        /\ source = MirSource(IF shape = "nonfn" THEN "Const" ELSE "Fn",
                              IF shape = "promoted" THEN Some(0) ELSE None)
        /\ caller_mir = CallerBody(shape, "int", 1)

Init == InitCommon /\ (InitHeuristic \/ InitShapes \/ InitFixed)

-----------------------------------------------------------------------------
(* The meaning of a body: an interpreter of MIR for executions that do not *)
(* panic.  A cell is <<frame, local>>, or <<StaticFrame, n>> for a static. *)
(* A location is a cell and a path of element indices into its value.      *)

StaticFrame == 0 - 1
BadFrame == 0 - 2

IntV(n) == [t |-> "int", v |-> n]
RefV(loc) == [t |-> "ref", loc |-> loc]
AggV(elems) == [t |-> "agg", elems |-> elems]
ConstV(c) == [t |-> "const", v |-> c]
Uninit == [t |-> "uninit"]

Loc(cell, path) == [cell |-> cell, path |-> path]
BadLoc == Loc(<<BadFrame, 0>>, <<>>)

read_cell(store, cell) == IF cell \in DOMAIN store THEN store[cell] ELSE Uninit

RECURSIVE value_at(_, _)
value_at(v, path) ==
    IF path = <<>> THEN v
    ELSE IF v.t = "agg" /\ Head(path) \in Indices(v.elems)
    THEN value_at(At(v.elems, Head(path)), Tail(path))
    ELSE Uninit

RECURSIVE value_update(_, _, _)
value_update(v, path, new) ==
    IF path = <<>> THEN new
    ELSE IF v.t = "agg" /\ Head(path) \in Indices(v.elems)
    THEN AggV([v.elems EXCEPT ![Head(path) + 1] = value_update(@, Tail(path), new)])
    ELSE v

load(store, loc) == value_at(read_cell(store, loc.cell), loc.path)

store_write(store, loc, v) ==
    [c \in DOMAIN store \cup {loc.cell} |->
        IF c = loc.cell THEN value_update(read_cell(store, c), loc.path, v)
        ELSE store[c]]

RECURSIVE eval_place(_, _, _)
eval_place(store, frame, place) ==
    CASE place.kind = "Local" -> Loc(<<frame, place.local>>, <<>>)
      [] place.kind = "Static" -> Loc(<<StaticFrame, place.def_id>>, <<>>)
      [] place.kind = "Projection" ->
            LET base == eval_place(store, frame, place.base)
                elem == place.elem
            IN  CASE elem.kind = "Deref" ->
                        IF load(store, base).t = "ref" THEN load(store, base).loc
                        ELSE BadLoc
                  [] elem.kind = "Field" ->
                        Loc(base.cell, Append(base.path, elem.field))
                  [] elem.kind = "Index" ->
                        LET i == read_cell(store, <<frame, elem.local>>)
                        IN  IF i.t = "int" THEN Loc(base.cell, Append(base.path, i.v))
                            ELSE BadLoc

eval_operand(mir, store, frame, op) ==
    IF op.kind = "Constant"
    THEN CASE op.literal.kind = "Value" -> IntV(op.literal.value)
           [] op.literal.kind = "Promoted" ->
                IF op.literal.index \in Indices(mir.promoted)
                THEN ConstV(At(mir.promoted, op.literal.index)) ELSE Uninit
           [] OTHER -> ConstV(op.literal)
    ELSE load(store, eval_place(store, frame, op.place))

eval_rvalue(mir, store, frame, rv) ==
    CASE rv.kind \in {"Use", "Cast"} -> eval_operand(mir, store, frame, rv.operand)
      [] rv.kind = "Ref" -> RefV(eval_place(store, frame, rv.place))
      [] rv.kind = "BinaryOp" ->
            LET l == eval_operand(mir, store, frame, rv.lhs)
                r == eval_operand(mir, store, frame, rv.rhs)
            IN  IF l.t = "int" /\ r.t = "int" THEN IntV(l.v + r.v) ELSE Uninit
      [] rv.kind = "Aggregate" ->
            AggV([k \in 1 .. Len(rv.operands) |->
                      eval_operand(mir, store, frame, rv.operands[k])])

exec_statement(mir, store, frame, stmt) ==
    IF stmt.kind.kind = "Assign"
    THEN store_write(store, eval_place(store, frame, stmt.kind.place),
                     eval_rvalue(mir, store, frame, stmt.kind.rvalue))
    ELSE store

RECURSIVE exec_statements(_, _, _, _)
exec_statements(mir, store, frame, stmts) ==
    IF stmts = <<>> THEN store
    ELSE exec_statements(mir, exec_statement(mir, store, frame, Head(stmts)),
                         frame, Tail(stmts))

RECURSIVE write_args(_, _, _, _)
write_args(store, frame, vals, k) ==
    IF k > Len(vals) THEN store
    ELSE write_args(store_write(store, Loc(<<frame, k>>, <<>>), vals[k]),
                    frame, vals, k + 1)

\* The values a call passes: a closure's argument tuple is spread
passed_args(callee, vals) ==
    IF is_closure(callee) /\ Len(vals) = 2 /\ vals[2].t = "agg"
    THEN <<vals[1]>> \o vals[2].elems
    ELSE vals

\* The body a direct call runs: prog is the body under optimization as
\* it was before the pass
callee_body(prog, def_id) ==
    LET inst == resolve(def_id, 0)
    IN  IF inst = None THEN None
        ELSE IF Unwrap(inst).def_id = SelfId THEN Some(prog)
        ELSE Some(optimized_mir(Unwrap(inst).def_id))

\* An execution in progress: the store, the stack of frames (the frame of
\* index k holds the locals <<k, _>>), and "run" or how the execution ended.
\* A frame keeps where its return value goes and where its caller resumes.
Frame(mir, bb, has_dest, dest, target) ==
    [mir |-> mir, bb |-> bb, has_dest |-> has_dest, dest |-> dest,
     target |-> target]

Config(status, store, stack) == [status |-> status, store |-> store, stack |-> stack]

goto(c, store, bb) ==
    Config("run", store, [c.stack EXCEPT ![Len(c.stack)].bb = bb])

\* The callee's frame returns: its return slot is written to the destination
\* the call evaluated, and the caller resumes at the call's target
return_from(c, store) ==
    LET top == c.stack[Len(c.stack)]
        frame == Len(c.stack) - 1
        rest == SubSeq(c.stack, 1, Len(c.stack) - 1)
    IN  IF Len(c.stack) = 1 THEN Config("return", store, c.stack)
        ELSE IF ~top.has_dest THEN Config("undefined", store, c.stack)
        ELSE Config("run",
                    store_write(store, top.dest,
                                read_cell(store, <<frame, RETURN_PLACE>>)),
                    [rest EXCEPT ![Len(rest)].bb = top.target])

enter_call(prog, c, store, kind) ==
    LET frame == Len(c.stack) - 1
        mir == c.stack[Len(c.stack)].mir
        d == kind.func.literal.def_id
        body == callee_body(prog, d)
        vals == [k \in 1 .. Len(kind.args) |->
                    eval_operand(mir, store, frame, kind.args[k])]
    IN  IF ~is_direct_call(kind) \/ body = None
        THEN Config("opaque", store, c.stack)
        ELSE Config("run",
                    write_args(store, frame + 1, passed_args(d, vals), 1),
                    Append(c.stack,
                           IF IsSome(kind.destination)
                           THEN Frame(Unwrap(body), START_BLOCK, TRUE,
                                      eval_place(store, frame,
                                                 Unwrap(kind.destination)[1]),
                                      Unwrap(kind.destination)[2])
                           ELSE Frame(Unwrap(body), START_BLOCK, FALSE, BadLoc,
                                      START_BLOCK)))

\* One block of the innermost frame
step(prog, c) ==
    LET top == c.stack[Len(c.stack)]
        frame == Len(c.stack) - 1
        blk == At(top.mir.basic_blocks, top.bb)
        s1 == exec_statements(top.mir, c.store, frame, blk.statements)
        kind == blk.terminator.kind
    IN  CASE kind.kind \in {"Goto", "Drop", "Assert"} -> goto(c, s1, kind.target)
          [] kind.kind = "SwitchInt" ->
                LET d == eval_operand(top.mir, s1, frame, kind.discr)
                IN  goto(c, s1,
                         IF d.t = "int" /\ d.v + 1 \in 1 .. Len(kind.targets)
                         THEN kind.targets[d.v + 1]
                         ELSE kind.targets[Len(kind.targets)])
          [] kind.kind = "DropAndReplace" ->
                goto(c, store_write(s1, eval_place(s1, frame, kind.location),
                                    eval_operand(top.mir, s1, frame, kind.value)),
                     kind.target)
          [] kind.kind = "FalseEdges" -> goto(c, s1, kind.real_target)
          [] kind.kind = "Return" -> return_from(c, s1)
          [] kind.kind = "Call" -> enter_call(prog, c, s1, kind)
          [] OTHER -> Config(kind.kind, s1, c.stack)

\* Runs c until it ends; fuel bounds the blocks run
RECURSIVE run(_, _, _)
run(prog, c, fuel) ==
    IF c.status # "run" THEN c
    ELSE IF fuel = 0 THEN Config("fuel", c.store, c.stack)
    ELSE run(prog, step(prog, c), fuel - 1)

\* The bound on the blocks one execution runs
MaxSteps == 12

InitialStore ==
    [c \in {<<0, 1>>, <<StaticFrame, 0>>} |->
        IF c = <<0, 1>> THEN IntV(1) ELSE IntV(0)]

execute(mir) ==
    run(mir, Config("run", InitialStore,
                    <<Frame(mir, START_BLOCK, FALSE, BadLoc, START_BLOCK)>>),
        MaxSteps)

\* What an execution of mir leaves in the statics and in the first n locals
\* of the outermost frame; a call to SelfId runs mir itself
observe(mir, n) ==
    LET r == execute(mir)
    IN  [status |-> r.status,
         cells |-> [c \in {<<0, l>> : l \in 0 .. (n - 1)} \cup {<<StaticFrame, 0>>} |->
                       read_cell(r.store, c)]]

-----------------------------------------------------------------------------
(* Inliner::run_pass *)

\* The cap on the caller's blocks that keeps the state space finite
MaxBlocks == 18

\* if let (hir::BodyOwnerKind::Fn, None) = (body_owner_kind, self.source.promoted)
Scan ==
    /\ pc = "start"
    /\ source.kind = "Fn" /\ source.promoted = None
    /\ callsites' = initial_callsites(caller_mir, 0)
    /\ pc' = "loop"
    /\ UNCHANGED <<tcx, source, caller_mir, local_change, changed, attempt,
                   integrator, simplify_runs>>

\* } else { return; }
NotFnBody ==
    /\ pc = "start"
    /\ ~(source.kind = "Fn" /\ source.promoted = None)
    /\ pc' = "done"
    /\ UNCHANGED <<tcx, source, caller_mir, callsites, local_change, changed,
                   attempt, integrator, simplify_runs>>

Popped == pc = "loop" /\ callsites # <<>>

\* while let Some(callsite) = callsites.pop_front()
PoppedCallsite == Head(callsites)

\* What try_get answers for the popped candidate
Fetched == try_get(PoppedCallsite.callee)

\* What inline_call does with the popped candidate
Attempted ==
    inline_call(PoppedCallsite, caller_mir,
                subst_and_normalize(Fetched.mir, PoppedCallsite.substs))

Discard(outcome, mir) ==
    /\ callsites' = Tail(callsites)
    /\ caller_mir' = mir
    /\ attempt' = [outcome |-> outcome, callsite |-> PoppedCallsite,
                   start |-> Len(caller_mir.basic_blocks),
                   terminator |->
                       At(caller_mir.basic_blocks, PoppedCallsite.bb).terminator]
    /\ UNCHANGED <<tcx, source, local_change, changed, pc, integrator,
                   simplify_runs>>

\* if !self.tcx.is_mir_available(callsite.callee) { continue; }
Unavailable ==
    /\ Popped
    /\ ~is_mir_available(PoppedCallsite.callee)
    /\ Discard("unavailable", caller_mir)

\* The cycle error answered by queueing the candidate again
CycleErrorRetry ==
    /\ Popped
    /\ is_mir_available(PoppedCallsite.callee)
    /\ ~Fetched.ok
    /\ callsites' = Append(Tail(callsites), PoppedCallsite)
    /\ attempt' = [outcome |-> "cycle", callsite |-> PoppedCallsite,
                   start |-> Len(caller_mir.basic_blocks),
                   terminator |->
                       At(caller_mir.basic_blocks, PoppedCallsite.bb).terminator]
    /\ UNCHANGED <<tcx, source, caller_mir, local_change, changed, pc,
                   integrator, simplify_runs>>

\* Err(mut bug) => { bug.cancel(); continue }
CycleError ==
    /\ Popped
    /\ is_mir_available(PoppedCallsite.callee)
    /\ ~Fetched.ok
    /\ Discard("cycle", caller_mir)

\* Ok(_) => continue
Rejected ==
    /\ Popped
    /\ is_mir_available(PoppedCallsite.callee)
    /\ Fetched.ok
    /\ ~should_inline(PoppedCallsite, Fetched.mir)
    /\ Discard("rejected", caller_mir)

\* if !self.inline_call(callsite, caller_mir, callee_mir) { continue; }
Refused ==
    /\ Popped
    /\ is_mir_available(PoppedCallsite.callee)
    /\ Fetched.ok
    /\ should_inline(PoppedCallsite, Fetched.mir)
    /\ ~Attempted.ok
    /\ Discard("refused", Attempted.mir)

\* inline_call succeeded: enqueue the call sites of the appended blocks
Inlined ==
    /\ Popped
    /\ is_mir_available(PoppedCallsite.callee)
    /\ Fetched.ok
    /\ should_inline(PoppedCallsite, Fetched.mir)
    /\ Attempted.ok
    /\ Len(caller_mir.basic_blocks) + Len(Fetched.mir.basic_blocks) <= MaxBlocks
    /\ caller_mir' = Attempted.mir
    /\ integrator' = Attempted.integrator
    /\ callsites' = Tail(callsites)
                      \o inlined_callsites(PoppedCallsite, Attempted.mir,
                                           Len(caller_mir.basic_blocks))
    /\ local_change' = TRUE
    /\ changed' = TRUE
    /\ attempt' = [outcome |-> "inlined", callsite |-> PoppedCallsite,
                   start |-> Len(caller_mir.basic_blocks),
                   terminator |->
                       At(caller_mir.basic_blocks, PoppedCallsite.bb).terminator]
    /\ pc' = IF Attempted.ice THEN "ice" ELSE "loop"
    /\ UNCHANGED <<tcx, source, simplify_runs>>

\* The queue is empty and something was inlined in this round: loop again
NextRound ==
    /\ pc = "loop" /\ callsites = <<>> /\ local_change
    /\ local_change' = FALSE
    /\ UNCHANGED <<tcx, source, caller_mir, callsites, changed, pc, attempt,
                   integrator, simplify_runs>>

\* if !local_change { break; }
Drained ==
    /\ pc = "loop" /\ callsites = <<>> /\ ~local_change
    /\ pc' = "drained"
    /\ UNCHANGED <<tcx, source, caller_mir, callsites, local_change, changed,
                   attempt, integrator, simplify_runs>>

\* The simplifier called whether or not something was inlined
SimplifyUnconditionally ==
    /\ pc = "drained"
    /\ simplify_runs' = simplify_runs + 1
    /\ pc' = "done"
    /\ UNCHANGED <<tcx, source, caller_mir, callsites, local_change, changed,
                   attempt, integrator>>

\* if changed { CfgSimplifier::new(caller_mir).simplify(); remove_dead_blocks }
Simplify ==
    /\ pc = "drained" /\ changed
    /\ simplify_runs' = simplify_runs + 1
    /\ pc' = "done"
    /\ UNCHANGED <<tcx, source, caller_mir, callsites, local_change, changed,
                   attempt, integrator>>

NoSimplify ==
    /\ pc = "drained" /\ ~changed
    /\ pc' = "done"
    /\ UNCHANGED <<tcx, source, caller_mir, callsites, local_change, changed,
                   attempt, integrator, simplify_runs>>

Next ==
    \/ Scan \/ NotFnBody
    \/ Unavailable \/ CycleError \/ Rejected \/ Refused \/ Inlined
    \/ NextRound \/ Drained \/ Simplify \/ NoSimplify

Spec == Init /\ [][Next]_vars

\* The body of the while loop can run on the popped candidate: it is discarded
\* or inlined (the model stops a splice that would pass MaxBlocks)
CanProcess ==
    /\ Popped
    /\ \/ ~is_mir_available(PoppedCallsite.callee)
       \/ ~Fetched.ok
       \/ ~should_inline(PoppedCallsite, Fetched.mir)
       \/ ~Attempted.ok
       \/ Len(caller_mir.basic_blocks) + Len(Fetched.mir.basic_blocks) <= MaxBlocks

ProcessCandidate == Unavailable \/ CycleError \/ Rejected \/ Refused \/ Inlined

\* run_pass is sequential code that runs to its end: a step that can be taken
\* is taken.  For the step on a popped candidate the weak fairness condition
\* is written with its enabling condition, CanProcess, spelled out.
FairSpec ==
    /\ Spec
    /\ WF_vars(Scan \/ NotFnBody \/ NextRound \/ Drained \/ Simplify \/ NoSimplify)
    /\ ([]<>(~CanProcess) \/ []<><<ProcessCandidate>>_vars)

-----------------------------------------------------------------------------
(* Properties *)

RECURSIVE place_elems(_)
place_elems(place) ==
    IF place.kind = "Projection"
    THEN Append(place_elems(place.base), place.elem) ELSE <<>>

\* The place dereferences a reference, indexes through a runtime value, or
\* names a static
UnstablePlace(place) ==
    \/ place_root(place).kind = "Static"
    \/ \E k \in 1 .. Len(place_elems(place)) :
          place_elems(place)[k].kind \in {"Deref", "Index"}

\* The blocks the last splice appended, as they were in the callee
SplicedCallee == optimized_mir(attempt.callsite.callee)

\* The destination place of the call the last attempt was about
AttemptDest == Unwrap(attempt.terminator.kind.destination)[1]

\* The statement of the callee block cb at position j, and what it became
CalleeStmt(cb, j) == At(SplicedCallee.basic_blocks, cb).statements[j]
SplicedStmt(cb, j) == At(caller_mir.basic_blocks, attempt.start + cb).statements[j]

\* C1: when a call whose destination dereferences a reference, indexes
\* through a runtime value or names a static is inlined, the call block
\* gets, right after its own statements, the assignment of a mutable borrow
\* of the destination to a fresh caller temporary; every assignment to the
\* callee's return slot becomes an assignment through a dereference of that
\* temporary; and running the caller after the splice leaves in the caller's
\* locals and the statics what running it with the call left there (so the
\* element written is the one the index named before the call).
C1_DestinationFixed ==
    [][(Inlined /\ UnstablePlace(AttemptDest'))
        => LET site == attempt'.callsite
               old == At(caller_mir.basic_blocks, site.bb)
               new == At(caller_mir'.basic_blocks, site.bb)
               tmp == integrator'.destination.base.local
               before == observe(caller_mir, Len(caller_mir.local_decls))
               after == observe(caller_mir', Len(caller_mir.local_decls))
           IN  /\ integrator'.destination.kind = "Projection"
               /\ integrator'.destination = PlaceDeref(Local(tmp))
               /\ tmp >= Len(caller_mir.local_decls)
               /\ tmp \notin {integrator'.args[k] : k \in 1 .. Len(integrator'.args)}
               /\ tmp \notin {integrator'.local_map[k] :
                                 k \in 1 .. Len(integrator'.local_map)}
               /\ Len(new.statements) > Len(old.statements)
               /\ new.statements[Len(old.statements) + 1].kind
                    = Assign(Local(tmp), Ref(AttemptDest'))
               /\ \A cb \in Indices(SplicedCallee'.basic_blocks) :
                    \A j \in 1 .. Len(At(SplicedCallee'.basic_blocks, cb).statements) :
                        CalleeStmt(cb, j)'.kind.kind = "Assign"
                        /\ CalleeStmt(cb, j)'.kind.place = Local(RETURN_PLACE)
                        => SplicedStmt(cb, j)'.kind.place = PlaceDeref(Local(tmp))
               /\ (before.status # "fuel" /\ after.status # "fuel")
                    => before = after]_vars

\* An inlined call with destination arr[idx] whose callee set idx to 2 and
\* returned 7: element 0, named by idx before the call, holds the 7
C1_Witness ==
    /\ attempt.outcome = "inlined"
    /\ AttemptDest = Projection(Local(2), Index(3))
    /\ SplicedCallee = MutBody
    /\ LET r == execute(caller_mir)
       IN  /\ r.status = "return"
           /\ read_cell(r.store, <<0, 3>>) = IntV(2)
           /\ read_cell(r.store, <<0, 2>>) = AggV(<<IntV(7), IntV(0), IntV(0)>>)

\* The block is a direct call that names d or resolves to d
CallsDef(blk, d) ==
    /\ is_direct_call(blk.terminator.kind)
    /\ \/ blk.terminator.kind.func.literal.def_id = d
       \/ resolve(blk.terminator.kind.func.literal.def_id,
                  blk.terminator.kind.func.literal.substs)
            = Some([def_id |-> d,
                    substs |-> blk.terminator.kind.func.literal.substs])

CallsSelf(mir) ==
    \E bb \in Indices(mir.basic_blocks) : CallsDef(At(mir.basic_blocks, bb), SelfId)

\* The function under optimization calls itself, or calls FId whose body
\* calls it back; the other callees do not call each other in a cycle
Recursive ==
    /\ \/ CallsSelf(caller_mir)
       \/ /\ \E bb \in Indices(caller_mir.basic_blocks) :
                CallsDef(At(caller_mir.basic_blocks, bb), FId)
          /\ is_mir_available(FId)
          /\ CallsSelf(optimized_mir(FId))
    /\ optimized_mir(FId) # CallsBody(GId, 1)

\* The blocks of mir that call d are the same blocks in mir2
CallsKept(mir, mir2, d) ==
    \A bb \in Indices(mir.basic_blocks) :
        CallsDef(At(mir.basic_blocks, bb), d)
            => /\ bb < Len(mir2.basic_blocks)
               /\ At(mir2.basic_blocks, bb) = At(mir.basic_blocks, bb)

C3_NeverInlineAbsolute ==
    [][\A d \in DefIds :
          find_inline_attr(d) = "Never"
          => /\ \A t \in Templates, n \in 0 .. 1,
                   bb \in Indices(caller_mir.basic_blocks) :
                    ~should_inline(CallSite(d, n, bb, SrcInfo(10, 1)), t.mir)
             /\ CallsKept(caller_mir, caller_mir', d)
             /\ (Popped /\ Head(callsites).callee = d /\ is_mir_available(d))
                  => /\ attempt'.outcome = "rejected"
                     /\ caller_mir' = caller_mir]_vars

\* A call to the never-inline FId (body x + 1, one block) that came into
\* the caller with the spliced body of WrapId was rejected and is still a
\* call when the worklist is drained
C3_Witness ==
    /\ pc = "drained"
    /\ attempt.outcome = "rejected"
    /\ attempt.callsite.callee = FId
    /\ find_inline_attr(FId) = "Never"
    /\ optimized_mir(FId) = IncBody
    /\ attempt.callsite.bb >= 3
    /\ CallsDef(At(caller_mir.basic_blocks, attempt.callsite.bb), FId)

\* C4: a popped candidate whose callee body declares an upvar is rejected
\* and the caller is not changed, whatever the cost and the attributes; no
\* inlined callee has an upvar.
C4_CaptureExclusion ==
    [][(/\ Popped
        /\ is_mir_available(Head(callsites).callee)
        /\ try_get(Head(callsites).callee).ok
        /\ try_get(Head(callsites).callee).mir.upvar_decls > 0)
        => /\ attempt'.outcome = "rejected"
           /\ caller_mir' = caller_mir
           /\ ~should_inline(Head(callsites),
                             try_get(Head(callsites).callee).mir)]_vars

\* A capturing closure body of cost 0 marked inline(always) was rejected
C4_Witness ==
    /\ attempt.outcome = "rejected"
    /\ SplicedCallee.upvar_decls > 0
    /\ find_inline_attr(attempt.callsite.callee) = "Always"
    /\ cost_and_threshold(attempt.callsite, SplicedCallee).cost = 0
    /\ CallsDef(At(caller_mir.basic_blocks, attempt.callsite.bb), FId)

\* The last attempt fetched the callee's body and asked should_inline
Tried == attempt.outcome \in {"rejected", "refused", "inlined"}

AttemptBlock == At(caller_mir.basic_blocks, attempt.callsite.bb)

AttemptCost == cost_and_threshold(attempt.callsite, SplicedCallee)

\* One block with one statement and a return terminator, no captures
SimpleCallee(mir) ==
    /\ Len(mir.basic_blocks) = 1
    /\ Len(At(mir.basic_blocks, START_BLOCK).statements) = 1
    /\ At(mir.basic_blocks, START_BLOCK).terminator.kind = Return
    /\ mir.upvar_decls = 0

\* The checks of should_inline that come before the threshold
EarlyReject(callsite, mir) ==
    \/ mir.upvar_decls > 0
    \/ mir.yield_ty
    \/ find_inline_attr(callsite.callee) = "Never"
    \/ /\ is_local(callsite.callee)
       /\ callsite.substs = 0
       /\ ~is_hinted(callsite.callee)

\* The only statement of a simple callee assigns the return slot, and its
\* copy in the first appended block assigns place
ReturnSlotBecomes(place) ==
    /\ attempt.start < Len(caller_mir.basic_blocks)
    /\ Len(At(caller_mir.basic_blocks, attempt.start).statements) = 1
    /\ (/\ CalleeStmt(START_BLOCK, 1).kind.kind = "Assign"
        /\ CalleeStmt(START_BLOCK, 1).kind.place = Local(RETURN_PLACE))
         => SplicedStmt(START_BLOCK, 1).kind
              = Assign(place,
                       visit_rvalue(integrator,
                                    CalleeStmt(START_BLOCK, 1).kind.rvalue))

\* C5 as stated: an attempted call with a destination to a callee of one
\* block, one statement and a return, without captures and not marked
\* inline(never), is inlined: its block ends in a jump and the callee's
\* statement assigns the call's original destination.
C5_AsStated ==
    (/\ Tried
     /\ SimpleCallee(SplicedCallee)
     /\ find_inline_attr(attempt.callsite.callee) # "Never"
     /\ IsSome(attempt.terminator.kind.destination))
    => /\ attempt.outcome = "inlined"
       /\ AttemptBlock.terminator.kind.kind = "Goto"
       /\ ReturnSlotBecomes(AttemptDest)

\* C5, amended: such a call is inlined when moreover the callee is not a
\* generator, is not a local function called without type parameters and
\* without an inline hint, and its estimated cost is at most 10; its block
\* then ends in the jump to the first appended block, and the callee's
\* statement assigns the call's destination, or, when the destination
\* dereferences, indexes or names a static, the dereference of the temporary
\* that borrows it.
C5_SimpleCalleeInlined ==
    (/\ Tried
     /\ SimpleCallee(SplicedCallee)
     /\ ~EarlyReject(attempt.callsite, SplicedCallee)
     /\ AttemptCost.cost <= 2 * INSTR_COST
     /\ IsSome(attempt.terminator.kind.destination))
    => /\ attempt.outcome = "inlined"
       /\ AttemptBlock.terminator.kind = Goto(attempt.start)
       /\ IF dest_needs_borrow(AttemptDest)
          THEN /\ integrator.destination.kind = "Projection"
               /\ integrator.destination.elem = Deref
               /\ integrator.destination.base.kind = "Local"
               /\ integrator.destination.base.local
                    >= Len(caller_mir.local_decls) - 1 - Len(integrator.args)
               /\ ReturnSlotBecomes(integrator.destination)
          ELSE ReturnSlotBecomes(AttemptDest)

\* x + 1 was inlined at a call whose destination is a field of a local: the
\* call block jumps to the appended block, which assigns the field
C5_Witness ==
    /\ pc = "drained"
    /\ attempt.outcome = "inlined"
    /\ SplicedCallee = IncBody
    /\ AttemptCost.cost = 2 * INSTR_COST
    /\ AttemptDest = PlaceField(Local(6), 0)
    /\ AttemptBlock.terminator.kind = Goto(attempt.start)
    /\ SplicedStmt(START_BLOCK, 1).kind.place = PlaceField(Local(6), 0)

EntryDiverges(mir) ==
    LET kind == At(mir.basic_blocks, START_BLOCK).terminator.kind
    IN  \/ kind.kind = "Unreachable"
        \/ kind.kind = "Call" /\ kind.destination = None

ColdUnhinted(callee) == get_attrs(callee).cold /\ ~is_hinted(callee)

\* C6 as stated: no callee marked cold, without an inline hint, of cost 12
\* is inlined.
C6_AsStated ==
    ~(/\ attempt.outcome = "inlined"
      /\ ColdUnhinted(attempt.callsite.callee)
      /\ AttemptCost.cost = 12)

\* C6, amended: for a cold callee without an inline hint, of cost 12, whose
\* entry block does not diverge, the threshold is 10 when the body has more
\* than 3 blocks and the callee is then rejected; with at most 3 blocks the
\* threshold is 10 + 10/4 = 12 and the callee is not rejected for its cost.
C6_ColdThreshold ==
    (/\ Tried
     /\ ColdUnhinted(attempt.callsite.callee)
     /\ AttemptCost.cost = 12
     /\ ~EntryDiverges(SplicedCallee))
    => IF Len(SplicedCallee.basic_blocks) > 3
       THEN /\ AttemptCost.threshold = 10
            /\ attempt.outcome = "rejected"
       ELSE /\ AttemptCost.threshold = 12
            /\ attempt.outcome = "rejected"
                 <=> EarlyReject(attempt.callsite, SplicedCallee)

\* A cold callee of four blocks and cost 12, not local and not marked
\* inline(never), was rejected against the threshold 10
C6_Witness ==
    /\ attempt.outcome = "rejected"
    /\ ColdUnhinted(attempt.callsite.callee)
    /\ ~EarlyReject(attempt.callsite, SplicedCallee)
    /\ Len(SplicedCallee.basic_blocks) = 4
    /\ AttemptCost = [cost |-> 12, threshold |-> 10]
    /\ AttemptBlock.terminator.kind.kind = "Call"

Range(seq) == {seq[k] : k \in 1 .. Len(seq)}

\* C8: in every splice, the callee's locals after its arguments are mapped,
\* each by the entry of the local map built for it, to caller locals that
\* did not exist before the splice, carry the callee's declaration, differ
\* from each other, from the argument locals and from the temporary of the
\* destination.
C8_LocalMapInjective ==
    [][(Inlined /\ pc' = "loop")
        => LET callee == SplicedCallee'
               n == Len(caller_mir.local_decls)
               mapped == vars_and_temps_iter(callee)
           IN  /\ Len(integrator'.args) = callee.arg_count
               /\ Len(integrator'.local_map) = Cardinality(mapped)
               /\ \A k \in mapped :
                    LET m == visit_local(integrator', k)
                    IN  /\ m = At(integrator'.local_map, k - callee.arg_count - 1)
                        /\ m >= n
                        /\ m < Len(caller_mir'.local_decls)
                        /\ decl_ty(At(caller_mir'.local_decls, m))
                             = decl_ty(At(callee.local_decls, k))
                        /\ \A k2 \in mapped \ {k} :
                             visit_local(integrator', k2) # m
                        /\ m \notin Range(integrator'.args)
                        /\ integrator'.destination.kind = "Projection"
                             => place_root(integrator'.destination).local # m
               /\ \A l \in 0 .. (n - 1) :
                    At(caller_mir'.local_decls, l) = At(caller_mir.local_decls, l)]_vars

\* The two locals of the body with every kind of terminator were mapped to
\* the two locals appended to the caller's thirteen
C8_Witness ==
    /\ attempt.outcome = "inlined"
    /\ pc # "ice"
    /\ SplicedCallee = MultiBody
    /\ integrator.local_map = <<13, 14>>
    /\ visit_local(integrator, 2) = 13
    /\ visit_local(integrator, 3) = 14

\* C9: in every splice, the callee's block k becomes the caller's block
\* start + k, start being the caller's block count before the splice; the
\* blocks before start are kept, but for the call site's terminator, which
\* becomes the jump to start; every successor of a callee terminator becomes
\* the successor start + (its index) at the same position; the successors
\* the rewrite adds (the return block, the unwind block) lie before start;
\* so the edges among the appended blocks are the callee's edges, shifted.
C9_BlockIndexBijection ==
    [][(Inlined /\ pc' = "loop")
        => LET callee == SplicedCallee'
               start == Len(caller_mir.basic_blocks)
               n == Len(callee.basic_blocks)
               site == attempt'.callsite
           IN  /\ integrator'.block_idx = start
               /\ Len(caller_mir'.basic_blocks) = start + n
               /\ At(caller_mir'.basic_blocks, site.bb).terminator.kind
                    = Goto(start + START_BLOCK)
               /\ \A bb \in 0 .. (start - 1) :
                    bb # site.bb
                    => At(caller_mir'.basic_blocks, bb)
                         = At(caller_mir.basic_blocks, bb)
               /\ \A k \in 0 .. (n - 1) :
                    LET so == successors(At(callee.basic_blocks, k).terminator.kind)
                        sn == successors(At(caller_mir'.basic_blocks,
                                            start + k).terminator.kind)
                    IN  /\ Len(sn) >= Len(so)
                        /\ \A i \in 1 .. Len(so) :
                             /\ sn[i] = start + so[i]
                             /\ sn[i] \in start .. (start + n - 1)
                        /\ \A i \in (Len(so) + 1) .. Len(sn) : sn[i] < start
                        /\ {b - start : b \in Range(sn) \cap (start .. (start + n - 1))}
                             = Range(so)]_vars

\* The body with every kind of terminator was spliced at block 3: its
\* branch to the blocks 1 and 2 is the branch to the blocks 4 and 5
C9_Witness ==
    /\ attempt.outcome = "inlined"
    /\ pc # "ice"
    /\ SplicedCallee = MultiBody
    /\ attempt.start = 3
    /\ Len(caller_mir.basic_blocks) = 13
    /\ At(caller_mir.basic_blocks, 3).terminator.kind.kind = "SwitchInt"
    /\ At(caller_mir.basic_blocks, 3).terminator.kind.targets = <<4, 5>>
    /\ AttemptBlock.terminator.kind = Goto(3)

\* C10: a step that discards the popped candidate (its body is unavailable,
\* fetching it reports a cycle, should_inline rejects it, or its call has no
\* destination) leaves the caller's body as it was, raises no error, takes
\* the candidate off the queue without queueing anything, and records no
\* change; a candidate whose call has no destination is always discarded.
C10_DiscardKeepsCaller ==
    [][Popped
        => /\ attempt'.callsite = Head(callsites)
           /\ ~is_mir_available(Head(callsites).callee)
                => attempt'.outcome = "unavailable"
           /\ (is_mir_available(Head(callsites).callee) /\ ~Fetched.ok)
                => attempt'.outcome = "cycle"
           /\ At(caller_mir.basic_blocks,
                 Head(callsites).bb).terminator.kind.destination = None
                => attempt'.outcome \in {"unavailable", "cycle", "rejected", "refused"}
           /\ attempt'.outcome \in {"unavailable", "cycle", "rejected", "refused"}
                => /\ caller_mir' = caller_mir
                   /\ callsites' = Tail(callsites)
                   /\ pc' = "loop"
                   /\ changed' = changed
                   /\ local_change' = local_change]_vars

\* A call without destination that should_inline accepted was refused by
\* inline_call: the block still ends in the call it ended in
C10_Witness ==
    /\ attempt.outcome = "refused"
    /\ attempt.terminator.kind.destination = None
    /\ should_inline(attempt.callsite, SplicedCallee)
    /\ AttemptBlock.terminator = attempt.terminator
    /\ pc = "done"
    /\ ~changed

\* table is kept at the front of table2
Extends(table, table2) ==
    /\ Len(table2) >= Len(table)
    /\ SubSeq(table2, 1, Len(table)) = table

\* C11: no step of the pass, the call of the simplifier apart, shrinks or
\* reindexes the caller's blocks, locals, scopes or promoted constants: the
\* locals, scopes and promoted constants there were are kept as they were,
\* only a splice changes the body, and among the blocks there were it
\* changes only the call site's: statements appended, the terminator
\* replaced by the jump to the first appended block.
C11_AppendOnly ==
    [][/\ Extends(caller_mir.local_decls, caller_mir'.local_decls)
       /\ Extends(caller_mir.visibility_scopes, caller_mir'.visibility_scopes)
       /\ Extends(caller_mir.promoted, caller_mir'.promoted)
       /\ Len(caller_mir'.basic_blocks) >= Len(caller_mir.basic_blocks)
       /\ caller_mir' # caller_mir
            => (Popped /\ attempt'.outcome = "inlined")
       /\ \A bb \in 0 .. (Len(caller_mir.basic_blocks) - 1) :
            LET old == At(caller_mir.basic_blocks, bb)
                new == At(caller_mir'.basic_blocks, bb)
            IN  \/ new = old
                \/ /\ Popped
                   /\ attempt'.outcome = "inlined"
                   /\ bb = Head(callsites).bb
                   /\ new.is_cleanup = old.is_cleanup
                   /\ Extends(old.statements, new.statements)
                   /\ new.terminator.kind = Goto(Len(caller_mir.basic_blocks))]_vars

\* A splice of the body with three scopes, two mapped locals and a promoted
\* constant, at a call whose destination is borrowed, has grown the four
\* tables and has kept what they held
C11_Witness ==
    /\ attempt.outcome = "inlined"
    /\ pc # "ice"
    /\ SplicedCallee = MultiBody
    /\ dest_needs_borrow(AttemptDest)
    /\ Len(caller_mir.local_decls) > Len(CallerLocals) + 2
    /\ Extends(CallerLocals, caller_mir.local_decls)
    /\ Extends(CallerScopes, caller_mir.visibility_scopes)
    /\ Len(caller_mir.visibility_scopes) = Len(CallerScopes) + 3
    /\ caller_mir.promoted = <<"caller_promoted0", "promoted0">>
    /\ Len(AttemptBlock.statements) > Len(Prelude("index"))

\* C12: the simplifier and the dead-block eliminator are called at most
\* once in a pass; they are called only with the queue empty after a round
\* that inlined nothing, as the last step of the pass; changed is set by the
\* successful splices and by nothing else; at the end of the pass they have
\* been called if and only if a splice succeeded; and as long as no splice
\* has succeeded (the body that is not a fn body included) they have not
\* been called and no step changes the caller's body.
C12_SimplifyOnce ==
    /\ [](simplify_runs <= 1)
    /\ [](pc = "done" => simplify_runs = (IF changed THEN 1 ELSE 0))
    /\ [](pc # "done" => simplify_runs = 0)
    /\ []((pc = "done" /\ ~(source.kind = "Fn" /\ source.promoted = None))
            => (simplify_runs = 0 /\ ~changed))
    /\ [][/\ simplify_runs' # simplify_runs
            => /\ pc = "drained" /\ pc' = "done"
               /\ callsites = <<>> /\ ~local_change /\ changed
               /\ simplify_runs' = simplify_runs + 1
          /\ changed' # changed
            => (Popped /\ attempt'.outcome = "inlined" /\ changed')
          /\ (Popped /\ attempt'.outcome = "inlined") => changed'
          /\ ~changed' => caller_mir' = caller_mir]_vars

\* The pass has ended after a splice and one call of the simplifier
C12_Witness ==
    /\ pc = "done"
    /\ changed
    /\ attempt.outcome \in {"inlined", "rejected", "unavailable"}
    /\ Len(caller_mir.basic_blocks) > attempt.start
    /\ callsites = <<>>
    /\ simplify_runs = 1

InCleanup(callsite) == At(caller_mir.basic_blocks, callsite.bb).is_cleanup

\* C13: no candidate in the queue is a call in an unwind-cleanup block, of
\* the caller's own blocks or of the blocks a splice appended, and no call
\* in an unwind-cleanup block is spliced.
C13_NoCleanupCandidates ==
    /\ \A i \in 1 .. Len(callsites) : ~InCleanup(callsites[i])
    /\ attempt.outcome = "inlined" => ~InCleanup(attempt.callsite)

\* The unwind target of a drop, drop-and-replace, call or assert
unwind_of(kind) ==
    IF kind.kind \in {"Drop", "DropAndReplace"} THEN kind.unwind ELSE kind.cleanup

\* C14: in every splice, for every callee block that ends in a drop, a
\* drop-and-replace, a call or an assert, the unwind target of its copy is
\* the callee's, offset by the block count before the splice, when the
\* callee's terminator has one; the unwind block of the original call (none
\* when the call has none) when it has none and the block is not a cleanup
\* block; and none when it has none and the block is a cleanup block.
C14_UnwindTargets ==
    [][(Inlined /\ pc' = "loop")
        => LET callee == SplicedCallee'
               start == Len(caller_mir.basic_blocks)
               call == At(caller_mir.basic_blocks, Head(callsites).bb).terminator.kind
           IN  \A k \in 0 .. (Len(callee.basic_blocks) - 1) :
                 LET old == At(callee.basic_blocks, k)
                     new == At(caller_mir'.basic_blocks, start + k)
                 IN  old.terminator.kind.kind
                        \in {"Drop", "DropAndReplace", "Call", "Assert"}
                     => /\ new.terminator.kind.kind = old.terminator.kind.kind
                        /\ new.is_cleanup = old.is_cleanup
                        /\ unwind_of(new.terminator.kind)
                             = IF IsSome(unwind_of(old.terminator.kind))
                               THEN Some(start + Unwrap(unwind_of(old.terminator.kind)))
                               ELSE IF ~old.is_cleanup THEN call.cleanup
                               ELSE None]_vars

\* The body with every kind of terminator was spliced at block 3 for a call
\* that unwinds to block 2: the drop without unwind target unwinds to 2, the
\* assert that unwinds to 7 unwinds to 10, the drop and the call of the
\* cleanup blocks have no unwind target
C14_Witness ==
    /\ attempt.outcome = "inlined"
    /\ pc # "ice"
    /\ SplicedCallee = MultiBody
    /\ attempt.start = 3
    /\ attempt.terminator.kind.cleanup = Some(2)
    /\ Len(caller_mir.basic_blocks) = 13
    /\ At(caller_mir.basic_blocks, 4).terminator.kind.unwind = Some(2)
    /\ At(caller_mir.basic_blocks, 5).terminator.kind.cleanup = Some(10)
    /\ At(caller_mir.basic_blocks, 6).terminator.kind.cleanup = Some(2)
    /\ At(caller_mir.basic_blocks, 10).terminator.kind.unwind = None
    /\ At(caller_mir.basic_blocks, 11).terminator.kind.cleanup = None

\* The scope the last splice appended for the callee's scope j
SplicedScope(j) == At(caller_mir.visibility_scopes, At(integrator.scope_map, j))

\* C15: after a splice, the scope appended for a root scope of the callee
\* has the call site's scope as its parent, and the scope appended for a
\* scope with a parent has as its parent the scope appended for that parent.
C15_ScopeNesting ==
    (attempt.outcome = "inlined" /\ pc # "ice")
    => \A j \in Indices(SplicedCallee.visibility_scopes) :
         LET parent == At(SplicedCallee.visibility_scopes, j).parent_scope
         IN  SplicedScope(j).parent_scope
               = IF parent = None THEN Some(attempt.callsite.location.scope)
                 ELSE Some(At(integrator.scope_map, Unwrap(parent)))

\* C16: after a splice, the caller locals that stand for the callee's
\* arguments differ from each other and from the local under the place that
\* stands for the callee's return slot.
C16_ArgumentsDedicated ==
    (attempt.outcome = "inlined" /\ pc # "ice")
    => /\ \A i, j \in 1 .. Len(integrator.args) :
            i # j => integrator.args[i] # integrator.args[j]
       /\ place_root(integrator.destination).kind = "Local"
            => place_root(integrator.destination).local
                 \notin Range(integrator.args)

\* One iteration of the while-let loop of run_pass, as a function of the
\* queue and the caller's body
iterate(q, mir) ==
    LET callsite == Head(q)
        fetched == try_get(callsite.callee)
        attempted == inline_call(callsite, mir,
                                 subst_and_normalize(fetched.mir, callsite.substs))
    IN  IF \/ ~is_mir_available(callsite.callee)
           \/ ~fetched.ok
           \/ ~should_inline(callsite, fetched.mir)
           \/ ~attempted.ok
        THEN [callsites |-> Tail(q), mir |-> mir, ice |-> FALSE]
        ELSE [callsites |-> Tail(q) \o inlined_callsites(callsite, attempted.mir,
                                                         Len(mir.basic_blocks)),
              mir |-> attempted.mir, ice |-> attempted.ice]

\* The number of iterations of the loop the recurrence is looked for in
MaxLookahead == 2

\* n iterations of the loop, or as many as there are before the queue is
\* empty or the compilation is aborted
RECURSIVE iterations(_, _, _)
iterations(q, mir, n) ==
    IF n = 0 \/ q = <<>> THEN [callsites |-> q, mir |-> mir]
    ELSE IF iterate(q, mir).ice THEN [callsites |-> <<>>, mir |-> mir]
    ELSE iterations(iterate(q, mir).callsites, iterate(q, mir).mir, n - 1)

\* What an iteration of the loop reads of the queue: for each candidate its
\* callee, its substitutions, and whether its call has a destination.  The
\* provider being fixed, the candidates an iteration takes off and puts on
\* the queue are determined by these.
QueueShape(q, mir) ==
    [k \in 1 .. Len(q) |->
        <<q[k].callee, q[k].substs,
          IsSome(At(mir.basic_blocks, q[k].bb).terminator.kind.destination)>>]

\* The queue holds, some iterations from now, the candidates it holds now
Recurs ==
    /\ pc = "loop"
    /\ callsites # <<>>
    /\ \E n \in 1 .. MaxLookahead :
         LET later == iterations(callsites, caller_mir, n)
         IN  /\ later.callsites # <<>>
             /\ QueueShape(later.callsites, later.mir)
                  = QueueShape(callsites, caller_mir)

\* C17: the loop ends for every caller and every set of callee bodies the
\* provider returns.  The loop being deterministic and its iterations being
\* determined by the callees, substitutions and destinations of the queued
\* candidates, a run that ends never holds a queue that comes back, some
\* iterations later, to the candidates it holds.
C17_NoRecurrence == ~Recurs

====
